---------------------------- MODULE Spec2Model ----------------------------
(***************************************************************************)
(* A model of the wallpaper workflow of the gateway                        *)
(* (src/src/routes/wallpaper.ts): the Submit handler POST /wallpaper, the  *)
(* status handler GET /wallpaper/status/:requestId with getQueueStatus,    *)
(* and the result handler GET /wallpaper/result/:requestId.                *)
(*                                                                         *)
(* A request is served by one slot.  Every await on an external service    *)
(* (language model, render queue, content delivery) is a step of its own:  *)
(* the handler issues the call, and a later action delivers the outcome    *)
(* the service produced and runs the handler up to its next await or its   *)
(* response.  The outcomes of the services are inputs drawn from small     *)
(* sets.  The gateway keeps nothing between requests: a slot's state is    *)
(* the request, the calls it issued with their outcomes, and the response. *)
(*                                                                         *)
(* Spec serves the three handlers.  RatioSpec applies closestAspectRatio   *)
(* of the restyle route to widths and heights its schema admits.  AppSpec  *)
(* runs the middleware that index.ts registers in front of the handlers.   *)
(* ConcSpec serves requests in two slots at once, JobSpec follows one job  *)
(* of the render service from submission to download, LogSpec lets the     *)
(* log emissions of the handlers throw, ModelsSpec serves GET /models      *)
(* with fetchModels and fetchPricing, and HeadersSpec computes the header  *)
(* record that requestLogger logs.                                         *)
(***************************************************************************)
EXTENDS Integers, Sequences, FiniteSets, TLC

VARIABLES
    pc,      \* pc[s]: where the handler of slot s stands
    req,     \* req[s]: the inbound request of slot s
    calls,   \* calls[s]: the external calls issued for the request, in order
    resp,    \* resp[s]: the HTTP response of slot s
    job      \* the job of the render service that the requests are about

vars == <<pc, req, calls, resp, job>>

\* Slots that may hold a request; Spec serves requests one at a time in
\* slot 1 (the handlers share no variable, see getQueueStatus and the routes).
Slots == {1, 2}
SeqSlots == {1}

NoReq == [route |-> "none"]
NoResp == [code |-> 0]

\* The gateway holds no job: a job is state of the render service.  The
\* specifications that leave the answers of the service open keep it NoJob.
NoJob == [state |-> "none"]
Pending == [pending |-> TRUE]

--------------------------------------------------------------------------
(* Errors thrown by an external call.  The handlers read only three things *)
(* of a thrown value: whether typeof err.status is "number" and its value, *)
(* whether it is an instance of Error, and err.message.                    *)

ErrStatuses == {0, 399, 400, 404, 499, 500, 599, 600}

UpstreamMessage == "upstream message"

Errors ==
    {[hasStatus |-> TRUE, status |-> n, isError |-> e] :
        n \in ErrStatuses, e \in BOOLEAN}
    \cup {[hasStatus |-> FALSE, status |-> 0, isError |-> e] : e \in BOOLEAN}

\* typeof err.status === "number" ? err.status : 500
ErrStatus(err) == IF err.hasStatus THEN err.status ELSE 500

\* err instanceof Error ? err.message : <the handler's fallback text>
ErrMessage(err, fallback) == IF err.isError THEN UpstreamMessage ELSE fallback

\* status >= 400 && status < 600 ? status : 500
PassThrough(status) == IF status >= 400 /\ status < 600 THEN status ELSE 500


--------------------------------------------------------------------------
(* The render service (fal.queue.status, fal.queue.result) as the handlers *)
(* see it.                                                                 *)

FAL_MODEL == "fal-ai/flux-2-pro"

RequestIds == {"", "abc123"}

QueueStates == {"IN_QUEUE", "IN_PROGRESS", "COMPLETED"}
Positions == {0, 5}

\* What fal.queue.status resolves to: the state and, when the property is
\* in the object, queue_position.
StatusReports ==
    {[ok |-> TRUE, status |-> st, hasPos |-> FALSE, pos |-> 0] : st \in QueueStates}
    \cup {[ok |-> TRUE, status |-> st, hasPos |-> TRUE, pos |-> p] :
            st \in QueueStates, p \in Positions}

Thrown == {[ok |-> FALSE, err |-> e] : e \in Errors}

StatusOutcomes == StatusReports \cup Thrown

\* An image of a result: its url and its content_type ("" stands for an
\* empty or missing content_type, both falsy).
ImageUrls == {"https://cdn/a.png", "https://cdn/b.png"}
RenderTypes == {"", "image/webp"}
Images == [url : ImageUrls, content_type : RenderTypes]

MaxImages == 2

ImageLists == UNION {[1..n -> Images] : n \in 0..MaxImages}

\* What fal.queue.result resolves to: data.images is missing or a list.
ResultReports ==
    {[ok |-> TRUE, hasImages |-> FALSE, images |-> <<>>]}
    \cup {[ok |-> TRUE, hasImages |-> TRUE, images |-> l] : l \in ImageLists}

ResultOutcomes == ResultReports \cup Thrown

--------------------------------------------------------------------------
(* Responses.  A JSON response is its status code and its body, a record   *)
(* holding exactly the fields that are serialized (a field whose value is  *)
(* undefined is not in the body).                                          *)

Json(code, body) == [kind |-> "json", code |-> code, body |-> body]

\* app.onError of index.ts: what a request gets when a middleware or its
\* handler throws an Error of the given message.
OnError(message) ==
    Json(500, [error |-> "Internal server error", message |-> message])

\* The message of the TypeError the engine throws (its text is the engine's).
TypeErrorMessage == "TypeError message"

Unhandled == OnError(TypeErrorMessage)

--------------------------------------------------------------------------
(* getQueueStatus and GET /status/:requestId                               *)

\* queuePosition and base of getQueueStatus.
StatusBaseDropFalsy(st) ==
    IF st.status = "IN_QUEUE" /\ st.hasPos /\ st.pos # 0
    THEN [status |-> st.status, queue_position |-> st.pos]
    ELSE [status |-> st.status]

StatusBase(st) ==
    IF st.status = "IN_QUEUE" /\ st.hasPos
    THEN [status |-> st.status, queue_position |-> st.pos]
    ELSE [status |-> st.status]

\* A tracker that fetches the result as soon as the job has left the queue.
FetchesResultOnceStarted(st) == st.status # "IN_QUEUE"

\* if (status.status === "COMPLETED"): the result is fetched in the same call.
FetchesResult(st) == st.status = "COMPLETED"

\* The catch block of getQueueStatus.
QueueStatusError(err) ==
    [error |-> ErrMessage(err, "Failed to get queue status"),
     status |-> ErrStatus(err)]

\* { ...base, image_url: data.images?.[0]?.url ?? undefined }
WithImageUrlLast(base, res) ==
    IF res.hasImages /\ Len(res.images) > 0
    THEN base @@ [image_url |-> res.images[Len(res.images)].url]
    ELSE base

WithImageUrl(base, res) ==
    IF res.hasImages /\ Len(res.images) > 0
    THEN base @@ [image_url |-> res.images[1].url]
    ELSE base

\* What getQueueStatus returns once the result fetch has settled.
AfterResultKeepBase(base, out) ==
    IF out.ok THEN WithImageUrl(base, out) ELSE base

AfterResult(base, out) ==
    IF out.ok THEN WithImageUrl(base, out) ELSE QueueStatusError(out.err)

\* getQueueStatus, from what the status query settled to and, when the
\* result was fetched, what that fetch settled to.
getQueueStatus(st, res) ==
    IF ~st.ok THEN QueueStatusError(st.err)
    ELSE IF FetchesResult(st) THEN AfterResult(StatusBase(st), res)
    ELSE StatusBase(st)

\* The status handler's answer to an outcome of getQueueStatus.
StatusReplyNoClamp(outcome) ==
    IF "error" \in DOMAIN outcome
    THEN Json(outcome.status, [error |-> outcome.error])
    ELSE Json(200, outcome)

StatusReply(outcome) ==
    IF "error" \in DOMAIN outcome
    THEN Json(IF outcome.status # 0 /\ outcome.status >= 400 /\ outcome.status < 600
              THEN outcome.status ELSE 500,
              [error |-> outcome.error])
    ELSE Json(200, outcome)

\* A call just issued: the service, what it was called with, no outcome yet.
Call(svc, arg) == [svc |-> svc, arg |-> arg, out |-> Pending]

\* The outcome of the last call issued is filled in when the call settles.
Settle(cs, out) == [cs EXCEPT ![Len(cs)] = [@ EXCEPT !.out = out]]

\* A status handler that answers from the finished poll of the same job
\* identifier in another slot, when there is one, instead of querying.
StatusRequestCached(s, rid) ==
    LET cached == {t \in Slots \ {s} :
                      /\ pc[t] = "done"
                      /\ req[t] = [route |-> "status", requestId |-> rid]} IN
    /\ pc[s] = "idle"
    /\ req' = [req EXCEPT ![s] = [route |-> "status", requestId |-> rid]]
    /\ IF rid = ""
       THEN /\ resp' = [resp EXCEPT ![s] = Json(400, [error |-> "Missing request_id"])]
            /\ pc' = [pc EXCEPT ![s] = "done"]
            /\ UNCHANGED calls
       ELSE IF cached # {}
       THEN /\ resp' = [resp EXCEPT ![s] = resp[CHOOSE t \in cached : TRUE]]
            /\ pc' = [pc EXCEPT ![s] = "done"]
            /\ UNCHANGED calls
       ELSE /\ calls' = [calls EXCEPT ![s] = <<Call("queue.status", rid)>>]
            /\ pc' = [pc EXCEPT ![s] = "status_query"]
            /\ UNCHANGED resp

\* The status handler up to its first await, for a request with the path
\* parameter rid.
StatusRequest(s, rid) ==
    /\ pc[s] = "idle"
    /\ req' = [req EXCEPT ![s] = [route |-> "status", requestId |-> rid]]
    /\ IF rid = ""
       THEN /\ resp' = [resp EXCEPT ![s] = Json(400, [error |-> "Missing request_id"])]
            /\ pc' = [pc EXCEPT ![s] = "done"]
            /\ UNCHANGED calls
       ELSE /\ calls' = [calls EXCEPT ![s] = <<Call("queue.status", rid)>>]
            /\ pc' = [pc EXCEPT ![s] = "status_query"]
            /\ UNCHANGED resp

ReceiveStatus(s) ==
    /\ \E rid \in RequestIds : StatusRequest(s, rid)
    /\ UNCHANGED job

\* fal.queue.status settles to out.
StatusSettles(s, out) ==
    /\ pc[s] = "status_query"
    /\ IF out.ok /\ FetchesResult(out)
       THEN /\ calls' = [calls EXCEPT ![s] = Append(Settle(@, out), Call("queue.result", req[s].requestId))]
            /\ pc' = [pc EXCEPT ![s] = "status_result"]
            /\ UNCHANGED <<req, resp>>
       ELSE /\ calls' = [calls EXCEPT ![s] = Settle(@, out)]
            /\ resp' = [resp EXCEPT ![s] = StatusReply(getQueueStatus(out, Pending))]
            /\ pc' = [pc EXCEPT ![s] = "done"]
            /\ UNCHANGED req

StatusReturns(s) ==
    /\ \E out \in StatusOutcomes : StatusSettles(s, out)
    /\ UNCHANGED job

\* fal.queue.result, called by getQueueStatus, settles to out.
StatusResultSettles(s, out) ==
    /\ pc[s] = "status_result"
    /\ calls' = [calls EXCEPT ![s] = Settle(@, out)]
    /\ resp' = [resp EXCEPT ![s] =
            StatusReply(getQueueStatus(calls[s][1].out, out))]
    /\ pc' = [pc EXCEPT ![s] = "done"]
    /\ UNCHANGED req

StatusResultReturns(s) ==
    /\ \E out \in ResultOutcomes : StatusResultSettles(s, out)
    /\ UNCHANGED job

--------------------------------------------------------------------------
(* GET /result/:requestId                                                  *)

\* What fetch(image.url) settles to: a response (ok or not, with the
\* Content-Type header, "" when the header is missing) or a rejection.
CdnResponses ==
    {[ok |-> TRUE, httpOk |-> TRUE, contentType |-> t] : t \in {"", "image/jpeg"}}
    \cup {[ok |-> TRUE, httpOk |-> FALSE, contentType |-> ""]}

\* fetch rejects with a TypeError: an Error without a status.
CdnOutcomes == CdnResponses \cup {t \in Thrown : ~t.err.hasStatus /\ t.err.isError}

NotReadyMessage ==
    "Generation not complete yet. Poll GET /wallpaper/status/:requestId until status is COMPLETED."

NotReady == Json(202, [status |-> "IN_PROGRESS", message |-> NotReadyMessage])

NoImageAsNotReady == NotReady

NoImage == Json(500, [error |-> "No image was generated by the model"])

CdnFailed == Json(502, [error |-> "Failed to fetch the generated image from CDN"])

\* The catch block of the result handler: it encloses the result fetch and
\* the fetch of the image.
ResultErrorAnyClientError(err) ==
    IF ErrStatus(err) >= 400 /\ ErrStatus(err) < 500
    THEN NotReady
    ELSE Json(PassThrough(ErrStatus(err)),
              [error |-> ErrMessage(err, "Failed to get result")])

\* A catch block that relays whatever status the error carries.
ResultErrorNoClamp(err) ==
    IF ErrStatus(err) = 400
    THEN NotReady
    ELSE Json(ErrStatus(err), [error |-> ErrMessage(err, "Failed to get result")])

ResultError(err) ==
    IF ErrStatus(err) = 400
    THEN NotReady
    ELSE Json(PassThrough(ErrStatus(err)),
              [error |-> ErrMessage(err, "Failed to get result")])

\* !data.images || data.images.length === 0
NoImages(res) == ~res.hasImages \/ Len(res.images) = 0

\* image.content_type || imageResponse.headers.get("Content-Type") || "image/png"
ContentTypeCdnFirst(image, cdn) ==
    IF cdn.contentType # "" THEN cdn.contentType
    ELSE IF image.content_type # "" THEN image.content_type
    ELSE "image/png"

ContentType(image, cdn) ==
    IF image.content_type # "" THEN image.content_type
    ELSE IF cdn.contentType # "" THEN cdn.contentType
    ELSE "image/png"

\* A relay that labels every body as a download of unknown type.
StreamAsDownload(url, contentType) ==
    [kind |-> "stream", code |-> 200, source |-> url,
     contentType |-> "application/octet-stream"]

\* new Response(imageResponse.body, {headers}): the body of the content
\* response is relayed.
Stream(url, contentType) ==
    [kind |-> "stream", code |-> 200, source |-> url, contentType |-> contentType]

\* The result handler up to its first await, for a request with the path
\* parameter rid.
ResultRequest(s, rid) ==
    /\ pc[s] = "idle"
    /\ req' = [req EXCEPT ![s] = [route |-> "result", requestId |-> rid]]
    /\ IF rid = ""
       THEN /\ resp' = [resp EXCEPT ![s] = Json(400, [error |-> "Missing request_id"])]
            /\ pc' = [pc EXCEPT ![s] = "done"]
            /\ UNCHANGED calls
       ELSE /\ calls' = [calls EXCEPT ![s] = <<Call("queue.result", rid)>>]
            /\ pc' = [pc EXCEPT ![s] = "result_query"]
            /\ UNCHANGED resp

ReceiveResult(s) ==
    /\ \E rid \in RequestIds : ResultRequest(s, rid)
    /\ UNCHANGED job

\* fal.queue.result settles to out.
ResultSettles(s, out) ==
    /\ pc[s] = "result_query"
    /\ IF out.ok /\ ~NoImages(out)
       THEN /\ calls' = [calls EXCEPT ![s] =
                   Append(Settle(@, out), Call("cdn", out.images[1].url))]
            /\ pc' = [pc EXCEPT ![s] = "result_cdn"]
            /\ UNCHANGED <<req, resp>>
       ELSE /\ calls' = [calls EXCEPT ![s] = Settle(@, out)]
            /\ resp' = [resp EXCEPT ![s] =
                   IF out.ok THEN NoImage ELSE ResultError(out.err)]
            /\ pc' = [pc EXCEPT ![s] = "done"]
            /\ UNCHANGED req

ResultReturns(s) ==
    /\ \E out \in ResultOutcomes : ResultSettles(s, out)
    /\ UNCHANGED job

\* fetch(image.url) settles to out.
CdnSettles(s, out) ==
    /\ pc[s] = "result_cdn"
    /\ calls' = [calls EXCEPT ![s] = Settle(@, out)]
    /\ resp' = [resp EXCEPT ![s] =
            IF ~out.ok THEN ResultError(out.err)
            ELSE IF ~out.httpOk THEN CdnFailed
            ELSE Stream(calls[s][2].arg,
                        ContentType(calls[s][1].out.images[1], out))]
    /\ pc' = [pc EXCEPT ![s] = "done"]
    /\ UNCHANGED req

CdnReturns(s) ==
    /\ \E out \in CdnOutcomes : CdnSettles(s, out)
    /\ UNCHANGED job

--------------------------------------------------------------------------
(* POST /wallpaper: the request body and wallpaperSchema                   *)

\* A string field of the body: missing, of another type, or a string, of
\* which the schema reads only the length.
Str(n) == [t |-> "str", len |-> n]
AbsentField == [t |-> "absent", len |-> 0]
OtherType == [t |-> "other", len |-> 0]

\* A number field: missing, of another type, or a number n + f with n an
\* integer and 0 <= f < 1, frac telling whether f > 0.
Num(n) == [t |-> "num", n |-> n, frac |-> FALSE]
NumFrac(n) == [t |-> "num", n |-> n, frac |-> TRUE]
AbsentNum == [t |-> "absent", n |-> 0, frac |-> FALSE]
OtherNum == [t |-> "other", n |-> 0, frac |-> FALSE]

CityValues == {AbsentField, OtherType, Str(0), Str(1), Str(200), Str(201)}
WeatherValues == {Str(0), Str(500), Str(501)}
DatetimeValues == {AbsentField, Str(200), Str(201)}
WidthValues ==
    {AbsentNum, OtherNum, Num(504), Num(511), Num(512), Num(1080), Num(4096),
     Num(4104), NumFrac(1080)}
HeightValues ==
    {AbsentNum, Num(100), Num(512), Num(1080), Num(4096), Num(4100), NumFrac(520)}

\* c.req.json().catch(() => null): the body does not parse, parses to a
\* falsy value, to a value that is no object, or to an object.
Bodies ==
    {[kind |-> k, city |-> AbsentField, weather |-> AbsentField,
      datetime |-> AbsentField, width |-> AbsentNum, height |-> AbsentNum] :
        k \in {"unparseable", "falsy", "nonobject"}}
    \cup {[kind |-> "object", city |-> c, weather |-> w, datetime |-> d,
           width |-> x, height |-> y] :
            c \in CityValues, w \in WeatherValues, d \in DatetimeValues,
            x \in WidthValues, y \in HeightValues}

Issue(field, message) == [field |-> field, message |-> message]

\* The issue of a value of the wrong type (its text is the library's).
InvalidType(field) == <<Issue(field, "invalid_type")>>

When(cond, issues) == IF cond THEN issues ELSE <<>>

\* z.string().min(1, minMsg).max(max, maxMsg)
StringIssues(field, v, minMsg, max, maxMsg) ==
    IF v.t # "str" THEN InvalidType(field)
    ELSE When(v.len < 1, <<Issue(field, minMsg)>>)
         \o When(v.len > max, <<Issue(field, maxMsg)>>)

\* z.number().int(intMsg).min(512, minMsg).max(4096, maxMsg).refine(v % 8 === 0, refMsg).
\* The checks run in this order and each failing one adds an issue; whether a
\* failed integer check ends the checks of the field is the library's choice
\* (intAborts).
DimensionIssues(field, v, intMsg, minMsg, maxMsg, refMsg, intAborts) ==
    IF v.t # "num" THEN InvalidType(field)
    ELSE IF v.frac /\ intAborts THEN <<Issue(field, intMsg)>>
    ELSE When(v.frac, <<Issue(field, intMsg)>>)
         \o When(v.n < 512, <<Issue(field, minMsg)>>)
         \o When(v.n > 4096 \/ (v.n = 4096 /\ v.frac), <<Issue(field, maxMsg)>>)
         \o When(v.frac \/ v.n % 8 # 0, <<Issue(field, refMsg)>>)

\* wallpaperSchema.safeParse(body).error.issues, in the order of the schema.
SchemaIssues(body, intAborts) ==
    IF body.kind # "object" THEN InvalidType("")
    ELSE StringIssues("city", body.city, "City is required",
                      200, "City must be 200 characters or less")
         \o StringIssues("weather", body.weather, "Weather is required",
                         500, "Weather must be 500 characters or less")
         \o StringIssues("datetime", body.datetime, "Datetime is required",
                         200, "Datetime must be 200 characters or less")
         \o DimensionIssues("width", body.width, "Width must be an integer",
                            "Minimum width is 512px", "Maximum width is 4096px",
                            "Width must be divisible by 8", intAborts)
         \o DimensionIssues("height", body.height, "Height must be an integer",
                            "Minimum height is 512px", "Maximum height is 4096px",
                            "Height must be divisible by 8", intAborts)

\* if (!body): the body did not parse, or is falsy.
NoBody(body) == body.kind \in {"unparseable", "falsy"}

InvalidBody == Json(400, [error |-> "Invalid or missing JSON body"])

ValidationFailed(issues) ==
    Json(400, [error |-> "Validation failed", details |-> issues])

MissingGoogleKey ==
    Json(401, [error |-> "Missing X-Google-Key header. Provide your Google AI API key."])

--------------------------------------------------------------------------
(* generatePromptWithGemini                                                *)

\* const orientation = height > width ? ... : width > height ? ... : "square"
Orientation(width, height) ==
    IF height > width THEN "portrait/vertical (tall)"
    ELSE IF width > height THEN "landscape/horizontal (wide)"
    ELSE "square"

\* A subject of the model's answer.
Subject(type, description) ==
    [type |-> type, description |-> description, pose |-> "pose",
     position |-> "position"]

L1 == Subject("Landmark", "tower")
L2 == Subject("Landmark", "dome")
E1 == Subject("Environment", "clouds")

SubjectLists ==
    {<<>>, <<L1>>, <<E1>>, <<L1, E1>>, <<E1, L2, L1, L1>>, <<L1, E1, E1>>}

DynamicFields == {"scene", "subjects", "color_palette", "lighting", "mood"}

\* What JSON.parse(text) yields when it is an object: the fields that are
\* missing from it, and its subjects when they are there.
SceneDescriptions ==
    {[kind |-> "scene", status |-> 200, errorBody |-> "", missing |-> m, subjects |-> l] :
        m \in SUBSET DynamicFields, l \in SubjectLists}

\* The language-model call settles to one of: fetch rejects ("throw"); a
\* response that is not ok ("http"), with the text of its body in errorBody
\* ("" for an empty body and when response.text() rejects); a response
\* whose body is no JSON
\* ("badjson"); no text in candidates[0].content.parts[0] ("notext"); a text
\* that JSON.parse rejects ("unparseable"); the text "null" ("null"); a text
\* that parses to an object ("scene").
GeminiErrorBodies == {"", "quota exceeded"}

GeminiFailures ==
    {[kind |-> k, status |-> 200, errorBody |-> "", missing |-> {}, subjects |-> <<>>] :
        k \in {"throw", "badjson", "notext", "unparseable", "null"}}
    \cup {[kind |-> "http", status |-> n, errorBody |-> b,
            missing |-> {}, subjects |-> <<>>] :
            n \in {400, 429, 503}, b \in GeminiErrorBodies}

GeminiOutcomes ==
    GeminiFailures
    \cup {g \in SceneDescriptions : "subjects" \in g.missing => g.subjects = <<>>}

\* Whether generatePromptWithGemini throws, and the message of what it throws:
\* the rejection of fetch or of response.json(), its own two errors, the
\* SyntaxError of JSON.parse, the TypeError of result.scene on null.
GeminiThrowsNever(g) == FALSE

GeminiThrows(g) == g.kind # "scene"

GeminiErrorMessage(g) ==
    CASE g.kind = "http" ->
            "Gemini API returned " \o ToString(g.status) \o ": " \o g.errorBody
      [] g.kind = "notext" -> "Gemini returned an empty response"
      [] OTHER -> UpstreamMessage

PromptFailed(message) ==
    Json(502, [error |-> "Prompt generation failed", message |-> message])

--------------------------------------------------------------------------
(* The merge of the model's fields with the fixed style                    *)

\* The texts are those of the source, its em dashes written "-".
PLATFORM_SUBJECT ==
    [type |-> "Platform",
     description |-> "Thin slim square platform with rounded corners, minimal vertical thickness like a flat slab or tile, light gray or off-white concrete texture. Entire platform fully visible within frame-all sides and corners contained, no cropping.",
     pose |-> "Horizontal base",
     position |-> "Center of composition, floating in clear sky, fully framed within image boundaries"]

URBAN_LAYOUT_SUBJECT ==
    [type |-> "UrbanLayout",
     description |-> "Light gray roads or pathways connecting landmarks on the platform. Stylized green trees and small park areas along paths. City miniature feel. No people, cars, buses, or small figures.",
     pose |-> "Flat on platform surface",
     position |-> "On platform surface, between and around landmarks"]

HARDCODED_STYLE ==
    [style |-> "Isometric 3D render, orthographic view, claymorphism, soft global illumination, Octane render, cute, miniature world, high fidelity, 4k",
     composition |-> "Isometric centered. Platform fully contained-entire platform visible within frame, no edges cut off, margin from image borders.",
     camera |-> [angle |-> "high angle isometric view (approx 45 degrees)",
                 distance |-> "pulled back so the entire platform fits within frame with margin, full object visibility",
                 lens |-> "50mm orthographic"],
     platform |-> "Thin slim platform base, minimal thickness, thin slab, NOT thick or chunky. Platform size consistent. ENTIRE platform FULLY visible within image-all edges and corners contained, no cropping or cut-off. Centered with margin from frame edges.",
     environment |-> "Clouds and sky above and behind the city. Clear empty void below the platform. Volumetric clouds in upper sky only."]

\* const orientationHint = height > width ? ... : width > height ? ... : ...
OrientationHintNoSquare(width, height) ==
    IF height >= width
    THEN "Vertical portrait framing-platform fully contained, centered, with sky above and below."
    ELSE "Horizontal landscape framing-platform fully contained, centered."

OrientationHint(width, height) ==
    IF height > width
    THEN "Vertical portrait framing-platform fully contained, centered, with sky above and below."
    ELSE IF width > height
    THEN "Horizontal landscape framing-platform fully contained, centered."
    ELSE "Square framing-platform centered with equal margin."

\* [PLATFORM_SUBJECT, URBAN_LAYOUT_SUBJECT, ...geminiResult.subjects]
PromptSubjectsModelFirst(g) ==
    g.subjects \o <<PLATFORM_SUBJECT, URBAN_LAYOUT_SUBJECT>>

PromptSubjects(g) == <<PLATFORM_SUBJECT, URBAN_LAYOUT_SUBJECT>> \o g.subjects

\* The spread of geminiResult.subjects throws when subjects is undefined.
MergeThrows(g) == "subjects" \in g.missing

Field(name, value) == [name |-> name, value |-> value]

\* A field of the model's answer as JSON.stringify writes it: not at all
\* when its value is undefined.
Dynamic(g, name, value) ==
    IF name \in g.missing THEN <<>> ELSE <<Field(name, value)>>

\* JSON.stringify(fullPrompt): the fields in the order of the object literal.
PromptString(g, width, height) ==
    Dynamic(g, "scene", "scene text")
    \o <<Field("subjects", PromptSubjects(g))>>
    \o Dynamic(g, "color_palette", <<"#87CEEB", "#FFD700", "#FF6347">>)
    \o Dynamic(g, "lighting", "lighting text")
    \o Dynamic(g, "mood", "mood text")
    \o <<Field("style", HARDCODED_STYLE.style),
         Field("composition",
               HARDCODED_STYLE.composition \o " " \o OrientationHint(width, height)),
         Field("camera", HARDCODED_STYLE.camera),
         Field("platform", HARDCODED_STYLE.platform),
         Field("environment", HARDCODED_STYLE.environment)>>

\* falInput
FalInputIgnoresModel(g, width, height) ==
    [prompt |-> PromptString([g EXCEPT !.subjects = <<>>, !.missing = {}],
                             width, height),
     image_size |-> [width |-> width, height |-> height],
     output_format |-> "png"]

FalInput(g, width, height) ==
    [prompt |-> PromptString(g, width, height),
     image_size |-> [width |-> width, height |-> height],
     output_format |-> "png"]

--------------------------------------------------------------------------
(* POST /wallpaper                                                         *)

UpstreamStatusUrl == "https://queue.fal.run/upstream/status"
UpstreamResponseUrl == "https://queue.fal.run/upstream/response"

\* What fal.queue.submit resolves to: the request_id and, when the service
\* gives them, status_url and response_url.
SubmitReports ==
    {[ok |-> TRUE, request_id |-> "abc123", hasStatusUrl |-> a, hasResponseUrl |-> b] :
        a \in BOOLEAN, b \in BOOLEAN}

SubmitOutcomes == SubmitReports \cup Thrown

QueuedMessage ==
    "Image generation queued. Poll GET /wallpaper/status/:requestId until status is COMPLETED, then fetch image from GET /wallpaper/result/:requestId"

\* queueStatus.status_url ?? `https://queue.fal.run/${FAL_MODEL}/requests/${requestId}/status`
StatusUrl(q) ==
    IF q.hasStatusUrl THEN UpstreamStatusUrl
    ELSE "https://queue.fal.run/" \o FAL_MODEL \o "/requests/" \o q.request_id \o "/status"

\* A result URL that is only ever the one the service reported.
ResponseUrlAsReported(q) ==
    IF q.hasResponseUrl THEN UpstreamResponseUrl ELSE ""

\* queueStatus.response_url ?? `https://queue.fal.run/${FAL_MODEL}/requests/${requestId}`
ResponseUrl(q) ==
    IF q.hasResponseUrl THEN UpstreamResponseUrl
    ELSE "https://queue.fal.run/" \o FAL_MODEL \o "/requests/" \o q.request_id

Queued(q) ==
    Json(202, [request_id |-> q.request_id, status_url |-> StatusUrl(q),
               response_url |-> ResponseUrl(q), message |-> QueuedMessage])

\* The catch block around fal.queue.submit.
SubmitErrorNoClamp(err) ==
    Json(ErrStatus(err),
         [error |-> "Queue submission failed",
          message |-> ErrMessage(err, "Failed to queue image generation")])

SubmitError(err) ==
    Json(PassThrough(ErrStatus(err)),
         [error |-> "Queue submission failed",
          message |-> ErrMessage(err, "Failed to queue image generation")])

\* The handler up to its first await on an external service: the body is
\* parsed and validated and the key is read before the language model is
\* called.
SubmitRejectionSkipValidation(body, googleKey, intAborts) ==
    IF NoBody(body) THEN <<InvalidBody>>
    ELSE IF ~googleKey THEN <<MissingGoogleKey>>
    ELSE <<>>

SubmitRejection(body, googleKey, intAborts) ==
    IF NoBody(body) THEN <<InvalidBody>>
    ELSE IF SchemaIssues(body, intAborts) # <<>>
         THEN <<ValidationFailed(SchemaIssues(body, intAborts))>>
    ELSE IF ~googleKey THEN <<MissingGoogleKey>>
    ELSE <<>>

\* The Submit handler up to its first await, for a request with the given
\* body and key.
SubmitRequest(s, body, googleKey, intAborts) ==
    LET rejection == SubmitRejection(body, googleKey, intAborts) IN
    /\ pc[s] = "idle"
    /\ req' = [req EXCEPT ![s] =
            [route |-> "submit", body |-> body, googleKey |-> googleKey]]
    /\ IF rejection # <<>>
       THEN /\ resp' = [resp EXCEPT ![s] = rejection[1]]
            /\ pc' = [pc EXCEPT ![s] = "done"]
            /\ UNCHANGED calls
       ELSE /\ calls' = [calls EXCEPT ![s] =
                <<Call("gemini",
                       [width |-> body.width.n, height |-> body.height.n,
                        orientation |-> Orientation(body.width.n, body.height.n)])>>]
            /\ pc' = [pc EXCEPT ![s] = "submit_gemini"]
            /\ UNCHANGED resp

ReceiveSubmit(s) ==
    /\ \E body \in Bodies, googleKey \in BOOLEAN, intAborts \in BOOLEAN :
        SubmitRequest(s, body, googleKey, intAborts)
    /\ UNCHANGED job

\* The language-model call settles to g.
GeminiSettles(s, g) ==
    /\ pc[s] = "submit_gemini"
    /\ IF GeminiThrows(g) \/ MergeThrows(g)
       THEN /\ calls' = [calls EXCEPT ![s] = Settle(@, g)]
            /\ resp' = [resp EXCEPT ![s] =
                   IF GeminiThrows(g) THEN PromptFailed(GeminiErrorMessage(g))
                   ELSE Unhandled]
            /\ pc' = [pc EXCEPT ![s] = "done"]
            /\ UNCHANGED req
       ELSE /\ calls' = [calls EXCEPT ![s] =
                   Append(Settle(@, g),
                          Call("queue.submit",
                               FalInput(g, req[s].body.width.n, req[s].body.height.n)))]
            /\ pc' = [pc EXCEPT ![s] = "submit_queue"]
            /\ UNCHANGED <<req, resp>>

GeminiReturns(s) ==
    /\ \E g \in GeminiOutcomes : GeminiSettles(s, g)
    /\ UNCHANGED job

SubmitReturnsRetry(s) ==
    /\ UNCHANGED job
    /\ pc[s] = "submit_queue"
    /\ \E out \in SubmitOutcomes :
        IF ~out.ok /\ Len(calls[s]) < 3
        THEN /\ calls' = [calls EXCEPT ![s] =
                    Append(Settle(@, out), Call("queue.submit", calls[s][2].arg))]
             /\ UNCHANGED <<pc, req, resp>>
        ELSE /\ calls' = [calls EXCEPT ![s] = Settle(@, out)]
             /\ resp' = [resp EXCEPT ![s] =
                    IF out.ok THEN Queued(out) ELSE SubmitError(out.err)]
             /\ pc' = [pc EXCEPT ![s] = "done"]
             /\ UNCHANGED req

\* fal.queue.submit settles to out.
SubmitSettles(s, out) ==
    /\ pc[s] = "submit_queue"
    /\ calls' = [calls EXCEPT ![s] = Settle(@, out)]
    /\ resp' = [resp EXCEPT ![s] =
            IF out.ok THEN Queued(out) ELSE SubmitError(out.err)]
    /\ pc' = [pc EXCEPT ![s] = "done"]
    /\ UNCHANGED req

SubmitReturns(s) ==
    /\ \E out \in SubmitOutcomes : SubmitSettles(s, out)
    /\ UNCHANGED job

\* The response is sent; the slot is free for the next request.
Respond(s) ==
    /\ pc[s] = "done"
    /\ pc' = [pc EXCEPT ![s] = "idle"]
    /\ req' = [req EXCEPT ![s] = NoReq]
    /\ calls' = [calls EXCEPT ![s] = <<>>]
    /\ resp' = [resp EXCEPT ![s] = NoResp]
    /\ UNCHANGED job

--------------------------------------------------------------------------
Init ==
    /\ pc = [s \in Slots |-> "idle"]
    /\ req = [s \in Slots |-> NoReq]
    /\ calls = [s \in Slots |-> <<>>]
    /\ resp = [s \in Slots |-> NoResp]
    /\ job = NoJob

Next ==
    \E s \in SeqSlots :
        \/ ReceiveSubmit(s)
        \/ GeminiReturns(s)
        \/ SubmitReturns(s)
        \/ ReceiveStatus(s)
        \/ StatusReturns(s)
        \/ StatusResultReturns(s)
        \/ ReceiveResult(s)
        \/ ResultReturns(s)
        \/ CdnReturns(s)
        \/ Respond(s)

Spec == Init /\ [][Next]_vars

--------------------------------------------------------------------------
(* Concurrent requests.  A Worker serves several requests at once: each   *)
(* await of a handler is a point where another request may run.  Both     *)
(* slots are in use, and every step of a handler is one step of the       *)
(* specification, so the steps of two requests interleave in every order. *)
(* The inputs are a few of each kind, one per branch of the handlers.     *)

ConcBodies ==
    {b \in Bodies :
        \/ b.kind = "unparseable"
        \/ /\ b.kind = "object"
           /\ b.city = Str(1) /\ b.weather = Str(500) /\ b.datetime = Str(200)
           /\ b.width = Num(1080) /\ b.height = Num(512)}

ConcGemini ==
    {g \in GeminiOutcomes :
        \/ g.kind = "http" /\ g.status = 503
        \/ g.kind = "scene" /\ g.missing = {} /\ g.subjects = <<L1, E1>>}

ConcFailures == {t \in Thrown : t.err.hasStatus /\ t.err.status = 404 /\ t.err.isError}

ConcSubmitted ==
    {q \in SubmitReports : q.hasStatusUrl /\ q.hasResponseUrl} \cup ConcFailures

ConcStatus ==
    {r \in StatusReports :
        \/ r.status = "IN_QUEUE" /\ r.hasPos /\ r.pos = 5
        \/ r.status = "COMPLETED" /\ ~r.hasPos}
    \cup ConcFailures

ConcResults ==
    {r \in ResultReports : r.hasImages /\ Len(r.images) = 1 /\ r.images[1].content_type = ""}
    \cup ConcFailures

ConcCdn == {r \in CdnResponses : r.httpOk /\ r.contentType = "image/jpeg"}

ConcReceiveSubmit(s) ==
    /\ \E body \in ConcBodies : SubmitRequest(s, body, TRUE, FALSE)
    /\ UNCHANGED job

ConcGeminiReturns(s) ==
    /\ \E g \in ConcGemini : GeminiSettles(s, g)
    /\ UNCHANGED job

ConcSubmitReturns(s) ==
    /\ \E out \in ConcSubmitted : SubmitSettles(s, out)
    /\ UNCHANGED job

ConcReceiveStatus(s) ==
    /\ \E rid \in RequestIds : StatusRequest(s, rid)
    /\ UNCHANGED job

ConcStatusReturns(s) ==
    /\ \E out \in ConcStatus : StatusSettles(s, out)
    /\ UNCHANGED job

ConcStatusResultReturns(s) ==
    /\ \E out \in ConcResults : StatusResultSettles(s, out)
    /\ UNCHANGED job

ConcReceiveResult(s) ==
    /\ \E rid \in RequestIds : ResultRequest(s, rid)
    /\ UNCHANGED job

ConcResultReturns(s) ==
    /\ \E out \in ConcResults : ResultSettles(s, out)
    /\ UNCHANGED job

ConcCdnReturns(s) ==
    /\ \E out \in ConcCdn : CdnSettles(s, out)
    /\ UNCHANGED job

ConcNext ==
    \E s \in Slots :
        \/ ConcReceiveSubmit(s)
        \/ ConcGeminiReturns(s)
        \/ ConcSubmitReturns(s)
        \/ ConcReceiveStatus(s)
        \/ ConcStatusReturns(s)
        \/ ConcStatusResultReturns(s)
        \/ ConcReceiveResult(s)
        \/ ConcResultReturns(s)
        \/ ConcCdnReturns(s)
        \/ Respond(s)

ConcSpec == Init /\ [][ConcNext]_vars

--------------------------------------------------------------------------
(* One job from submission to download.  The render service holds the job *)
(* that the submission created, moves it from queued through running to   *)
(* completed, and answers every call about it according to its state at   *)
(* the time of the answer: fal.queue.status reports the state (with the   *)
(* position while queued), fal.queue.result fails with status 400 until   *)
(* the job is completed and then gives its image, and the content         *)
(* delivery serves the image.  The submission asks for output_format      *)
(* "png", so the image is a PNG: where a content type is reported it is   *)
(* image/png.  Clients poll and fetch from both slots while the job       *)
(* advances.                                                              *)

JobImages == [url : {"https://cdn/a.png"}, content_type : {"", "image/png"}]

JobScenes ==
    {g \in SceneDescriptions :
        g.missing = {} /\ g.subjects \in {<<L1, E1>>, <<E1, L2, L1, L1>>}}

JobBodies ==
    {b \in Bodies :
        /\ b.kind = "object"
        /\ b.city = Str(1) /\ b.weather = Str(500) /\ b.datetime = Str(200)
        /\ b.width = Num(1080) /\ b.height = Num(512)}

\* fal.queue.status for the job.
JobStatus ==
    IF job.state = "IN_QUEUE"
    THEN {r \in StatusReports : r.status = "IN_QUEUE" /\ r.hasPos}
    ELSE {r \in StatusReports : r.status = job.state /\ ~r.hasPos}

\* fal.queue.result for the job.
JobResult ==
    IF job.state = "COMPLETED"
    THEN {[ok |-> TRUE, hasImages |-> TRUE, images |-> <<job.image>>]}
    ELSE {t \in Thrown : t.err.hasStatus /\ t.err.status = 400 /\ t.err.isError}

\* fetch(image.url) for the image of the job.
JobCdn == {[ok |-> TRUE, httpOk |-> TRUE, contentType |-> t] : t \in {"", "image/png"}}

JobReceiveSubmit(s) ==
    /\ job = NoJob
    /\ \A t \in Slots : pc[t] = "idle"
    /\ \E body \in JobBodies : SubmitRequest(s, body, TRUE, FALSE)
    /\ UNCHANGED job

JobGeminiReturns(s) ==
    /\ \E g \in JobScenes : GeminiSettles(s, g)
    /\ UNCHANGED job

\* The submission is accepted: the service now holds the job, queued.
JobSubmitReturns(s) ==
    \E out \in SubmitReports :
        /\ SubmitSettles(s, out)
        /\ job' = [state |-> "IN_QUEUE", id |-> out.request_id]

\* The service starts the job.
JobStarts ==
    /\ job.state = "IN_QUEUE"
    /\ job' = [job EXCEPT !.state = "IN_PROGRESS"]
    /\ UNCHANGED <<pc, req, calls, resp>>

\* The service completes the job: its image is there.
JobCompletes ==
    /\ job.state = "IN_PROGRESS"
    /\ \E img \in JobImages :
          job' = [state |-> "COMPLETED", id |-> job.id, image |-> img]
    /\ UNCHANGED <<pc, req, calls, resp>>

JobReceiveStatus(s) ==
    /\ job # NoJob
    /\ StatusRequest(s, job.id)
    /\ UNCHANGED job

JobStatusReturns(s) ==
    /\ job # NoJob
    /\ \E out \in JobStatus : StatusSettles(s, out)
    /\ UNCHANGED job

JobStatusResultReturns(s) ==
    /\ job # NoJob
    /\ \E out \in JobResult : StatusResultSettles(s, out)
    /\ UNCHANGED job

JobReceiveResult(s) ==
    /\ job # NoJob
    /\ ResultRequest(s, job.id)
    /\ UNCHANGED job

JobResultReturns(s) ==
    /\ job # NoJob
    /\ \E out \in JobResult : ResultSettles(s, out)
    /\ UNCHANGED job

JobCdnReturns(s) ==
    /\ \E out \in JobCdn : CdnSettles(s, out)
    /\ UNCHANGED job

JobNext ==
    \/ JobStarts
    \/ JobCompletes
    \/ \E s \in Slots :
        \/ JobReceiveSubmit(s)
        \/ JobGeminiReturns(s)
        \/ JobSubmitReturns(s)
        \/ JobReceiveStatus(s)
        \/ JobStatusReturns(s)
        \/ JobStatusResultReturns(s)
        \/ JobReceiveResult(s)
        \/ JobResultReturns(s)
        \/ JobCdnReturns(s)
        \/ Respond(s)

JobSpec == Init /\ [][JobNext]_vars

--------------------------------------------------------------------------
(* Log emissions that fail.  A call of logger.info, logger.warn or        *)
(* logger.error either returns or throws an Error of the logger; no call  *)
(* of the handlers is wrapped for that purpose, so what a throw does is   *)
(* decided by where the call stands: inside a try block the handler's own *)
(* catch takes the logger's error for an error of the service, outside    *)
(* one (and inside a catch block) the error leaves the handler and        *)
(* app.onError answers.  In each step, fails is the set of emissions,     *)
(* named by their message, that throw when the step reaches them.         *)

LogMessage == "log failed"

\* A step that receives a request and answers it without a call.
FailsOnReceive(s, request, answer) ==
    /\ pc[s] = "idle"
    /\ req' = [req EXCEPT ![s] = request]
    /\ resp' = [resp EXCEPT ![s] = answer]
    /\ pc' = [pc EXCEPT ![s] = "done"]
    /\ UNCHANGED calls

\* A step in which the pending call settles and the request is answered.
FailsOnSettle(s, at, out, answer) ==
    /\ pc[s] = at
    /\ calls' = [calls EXCEPT ![s] = Settle(@, out)]
    /\ resp' = [resp EXCEPT ![s] = answer]
    /\ pc' = [pc EXCEPT ![s] = "done"]
    /\ UNCHANGED req

\* The catch block of the language-model call (wallpaper.ts 316-326) for
\* an error of the given message: its own logger.error is not guarded.
GeminiCatch(message, fails) ==
    IF "Gemini prompt generation error" \in fails THEN OnError(LogMessage)
    ELSE PromptFailed(message)

\* The emission that generatePromptWithGemini reaches after the fetch.
GeminiLog(g) ==
    CASE g.kind = "http" -> "gemini_error"
      [] g.kind = "notext" -> "gemini_empty_response"
      [] g.kind = "scene" -> "gemini_response"
      [] OTHER -> ""

\* The catch block of the queue submission (403-421) for the logger's error.
SubmitCatch(fails) ==
    IF "fal_queue_submit_error" \in fails THEN OnError(LogMessage)
    ELSE Json(500, [error |-> "Queue submission failed", message |-> LogMessage])

\* The catch block of getQueueStatus (474-486) for the logger's error, and
\* the status handler's answer to it.
StatusCatch(fails) ==
    IF "fal_queue_status_error" \in fails THEN OnError(LogMessage)
    ELSE StatusReply([error |-> LogMessage, status |-> 500])

\* The catch block of the result handler (562-586) for the logger's error.
ResultCatch(fails) ==
    IF "fal_queue_result_error" \in fails THEN OnError(LogMessage)
    ELSE Json(500, [error |-> LogMessage])

SubmitRequestLogged(s, body, fails) ==
    IF SubmitRejection(body, TRUE, FALSE) = <<>> /\ "gemini_request" \in fails
    THEN FailsOnReceive(s, [route |-> "submit", body |-> body, googleKey |-> TRUE],
                        GeminiCatch(LogMessage, fails))
    ELSE SubmitRequest(s, body, TRUE, FALSE)

GeminiSettlesLogged(s, g, fails) ==
    LET failure ==
            IF GeminiLog(g) \in fails THEN <<GeminiCatch(LogMessage, fails)>>
            ELSE IF GeminiThrows(g)
            THEN IF "Gemini prompt generation error" \in fails
                 THEN <<OnError(LogMessage)>> ELSE <<>>
            ELSE IF MergeThrows(g) THEN <<>>
            ELSE IF {"wallpaper_prompt_ready", "fal_queue_submit_request"} \cap fails # {}
            THEN <<OnError(LogMessage)>>
            ELSE <<>> IN
    IF failure # <<>> THEN FailsOnSettle(s, "submit_gemini", g, failure[1])
    ELSE GeminiSettles(s, g)

SubmitSettlesLogged(s, out, fails) ==
    LET failure ==
            IF out.ok
            THEN IF "fal_queue_submit_complete" \in fails
                 THEN <<SubmitCatch(fails)>> ELSE <<>>
            ELSE IF "fal_queue_submit_error" \in fails
                 THEN <<OnError(LogMessage)>> ELSE <<>> IN
    IF failure # <<>> THEN FailsOnSettle(s, "submit_queue", out, failure[1])
    ELSE SubmitSettles(s, out)

StatusRequestLogged(s, rid, fails) ==
    IF rid # "" /\ "fal_queue_status_request" \in fails
    THEN FailsOnReceive(s, [route |-> "status", requestId |-> rid], StatusCatch(fails))
    ELSE StatusRequest(s, rid)

StatusSettlesLogged(s, out, fails) ==
    LET failure ==
            IF out.ok
            THEN IF \/ "fal_queue_status_complete" \in fails
                    \/ FetchesResult(out) /\ "fal_queue_result_request" \in fails
                 THEN <<StatusCatch(fails)>> ELSE <<>>
            ELSE IF "fal_queue_status_error" \in fails
                 THEN <<OnError(LogMessage)>> ELSE <<>> IN
    IF failure # <<>> THEN FailsOnSettle(s, "status_query", out, failure[1])
    ELSE StatusSettles(s, out)

StatusResultSettlesLogged(s, out, fails) ==
    LET failure ==
            IF out.ok
            THEN IF "fal_queue_result_complete" \in fails
                 THEN <<StatusCatch(fails)>> ELSE <<>>
            ELSE IF "fal_queue_status_error" \in fails
                 THEN <<OnError(LogMessage)>> ELSE <<>> IN
    IF failure # <<>> THEN FailsOnSettle(s, "status_result", out, failure[1])
    ELSE StatusResultSettles(s, out)

ResultRequestLogged(s, rid, fails) ==
    IF rid # "" /\ "fal_queue_result_request" \in fails
    THEN FailsOnReceive(s, [route |-> "result", requestId |-> rid], OnError(LogMessage))
    ELSE ResultRequest(s, rid)

ResultSettlesLogged(s, out, fails) ==
    LET failure ==
            IF out.ok
            THEN IF (IF NoImages(out) THEN "fal_queue_result_no_images"
                     ELSE "fal_queue_result_complete") \in fails
                 THEN <<ResultCatch(fails)>> ELSE <<>>
            ELSE IF "fal_queue_result_error" \in fails
                 THEN <<OnError(LogMessage)>> ELSE <<>> IN
    IF failure # <<>> THEN FailsOnSettle(s, "result_query", out, failure[1])
    ELSE ResultSettles(s, out)

CdnSettlesLogged(s, out, fails) ==
    IF ~out.ok /\ "fal_queue_result_error" \in fails
    THEN FailsOnSettle(s, "result_cdn", out, OnError(LogMessage))
    ELSE CdnSettles(s, out)

LogBodies == {b \in ConcBodies : b.kind = "object"}

LogCdn == ConcCdn \cup {t \in Thrown : ~t.err.hasStatus /\ t.err.isError}

LogReceiveSubmit(s) ==
    /\ \E body \in LogBodies,
          fails \in SUBSET {"gemini_request", "Gemini prompt generation error"} :
            SubmitRequestLogged(s, body, fails)
    /\ UNCHANGED job

LogGeminiReturns(s) ==
    /\ \E g \in ConcGemini,
          fails \in SUBSET {"gemini_error", "gemini_response",
                            "Gemini prompt generation error",
                            "wallpaper_prompt_ready", "fal_queue_submit_request"} :
            GeminiSettlesLogged(s, g, fails)
    /\ UNCHANGED job

LogSubmitReturns(s) ==
    /\ \E out \in ConcSubmitted,
          fails \in SUBSET {"fal_queue_submit_complete", "fal_queue_submit_error"} :
            SubmitSettlesLogged(s, out, fails)
    /\ UNCHANGED job

LogReceiveStatus(s) ==
    /\ \E rid \in RequestIds,
          fails \in SUBSET {"fal_queue_status_request", "fal_queue_status_error"} :
            StatusRequestLogged(s, rid, fails)
    /\ UNCHANGED job

LogStatusReturns(s) ==
    /\ \E out \in ConcStatus,
          fails \in SUBSET {"fal_queue_status_complete", "fal_queue_result_request",
                            "fal_queue_status_error"} :
            StatusSettlesLogged(s, out, fails)
    /\ UNCHANGED job

LogStatusResultReturns(s) ==
    /\ \E out \in ConcResults,
          fails \in SUBSET {"fal_queue_result_complete", "fal_queue_status_error"} :
            StatusResultSettlesLogged(s, out, fails)
    /\ UNCHANGED job

LogReceiveResult(s) ==
    /\ \E rid \in RequestIds, fails \in SUBSET {"fal_queue_result_request"} :
            ResultRequestLogged(s, rid, fails)
    /\ UNCHANGED job

LogResultReturns(s) ==
    /\ \E out \in ConcResults \cup {[ok |-> TRUE, hasImages |-> FALSE, images |-> <<>>]},
          fails \in SUBSET {"fal_queue_result_no_images", "fal_queue_result_complete",
                            "fal_queue_result_error"} :
            ResultSettlesLogged(s, out, fails)
    /\ UNCHANGED job

LogCdnReturns(s) ==
    /\ \E out \in LogCdn, fails \in SUBSET {"fal_queue_result_error"} :
            CdnSettlesLogged(s, out, fails)
    /\ UNCHANGED job

LogNext ==
    \E s \in Slots :
        \/ LogReceiveSubmit(s)
        \/ LogGeminiReturns(s)
        \/ LogSubmitReturns(s)
        \/ LogReceiveStatus(s)
        \/ LogStatusReturns(s)
        \/ LogStatusResultReturns(s)
        \/ LogReceiveResult(s)
        \/ LogResultReturns(s)
        \/ LogCdnReturns(s)
        \/ Respond(s)

LogSpec == Init /\ [][LogNext]_vars

--------------------------------------------------------------------------
(* closestAspectRatio of the restyle route.  Its numbers are IEEE 754      *)
(* doubles: a quotient and a difference are rounded to the nearest number  *)
(* of 53 significant binary digits, ties to the even one.  All the numbers *)
(* it meets lie below 16 and are multiples of 2^-56, so a number is        *)
(* written as a sequence of FixLen binary digits, digit i of weight        *)
(* 2^(IntBits - i).                                                        *)

SUPPORTED_RATIOS ==
    <<"21:9", "16:9", "4:3", "3:2", "1:1", "2:3", "3:4", "9:16", "9:21">>

\* ratio.split(":").map(Number)
RatioParts(ratio) ==
    CASE ratio = "21:9" -> <<21, 9>>
      [] ratio = "16:9" -> <<16, 9>>
      [] ratio = "4:3" -> <<4, 3>>
      [] ratio = "3:2" -> <<3, 2>>
      [] ratio = "1:1" -> <<1, 1>>
      [] ratio = "2:3" -> <<2, 3>>
      [] ratio = "3:4" -> <<3, 4>>
      [] ratio = "9:16" -> <<9, 16>>
      [] ratio = "9:21" -> <<9, 21>>

MantissaBits == 53
IntBits == 4
FracBytes == 7
FixLen == IntBits + 8 * FracBytes

\* The binary digits of an integer n in 0..15, the most significant first.
IntDigits(n) == <<(n \div 8) % 2, (n \div 4) % 2, (n \div 2) % 2, n % 2>>

\* The eight binary digits of an integer n in 0..255.
ByteDigits(n) == [i \in 1..8 |-> (n \div 2^(8 - i)) % 2]

\* The first 8 * k binary digits of the fraction r / b (0 <= r < b), by long
\* division eight digits at a time, and the remainder they leave.
RECURSIVE FracDigits(_, _, _)
FracDigits(r, b, k) ==
    IF k = 0 THEN <<>>
    ELSE ByteDigits((256 * r) \div b) \o FracDigits((256 * r) % b, b, k - 1)

RECURSIVE FracRest(_, _, _)
FracRest(r, b, k) == IF k = 0 THEN r ELSE FracRest((256 * r) % b, b, k - 1)

\* The position of the first digit 1 of x; Len(x) + 1 when x is zero.
Leading(x) ==
    IF \E i \in DOMAIN x : x[i] = 1
    THEN CHOOSE i \in DOMAIN x : x[i] = 1 /\ \A j \in 1..(i - 1) : x[j] = 0
    ELSE Len(x) + 1

\* x plus one unit of digit p: the carry runs left through the digits 1 and
\* stops at the first digit 0, position stop (0 when there is none).
AddUnit(x, p) ==
    LET zeros == {i \in 1..p : x[i] = 0}
        stop == IF zeros = {} THEN 0
                ELSE CHOOSE i \in zeros : \A j \in zeros : j <= i
    IN  [i \in DOMAIN x |->
            IF i = stop THEN 1 ELSE IF i > stop /\ i <= p THEN 0 ELSE x[i]]

\* The double nearest to the number whose first digits are x (inexact: the
\* number has nonzero digits beyond x): MantissaBits digits are kept from
\* the first 1, the rest rounds to nearest, a tie to the even digit.
RoundToDouble(x, inexact) ==
    LET last == Leading(x) + MantissaBits - 1 IN
    IF last >= Len(x) THEN x
    ELSE LET kept == [i \in DOMAIN x |-> IF i <= last THEN x[i] ELSE 0]
             sticky == inexact \/ \E i \in (last + 2)..Len(x) : x[i] = 1
         IN  IF x[last + 1] = 1 /\ (sticky \/ x[last] = 1)
             THEN AddUnit(kept, last)
             ELSE kept

\* a / b for integers 0 <= a < 16 * b.
Divide(a, b) ==
    RoundToDouble(IntDigits(a \div b) \o FracDigits(a % b, b, FracBytes),
                  FracRest(a % b, b, FracBytes) # 0)

\* x < y
Less(x, y) ==
    \E i \in DOMAIN x : x[i] < y[i] /\ \A j \in 1..(i - 1) : x[j] = y[j]

\* x - y for x >= y: digit p borrows when the digits after p of x make a
\* smaller number than those of y.
Borrow(x, y, p) ==
    \E i \in (p + 1)..Len(x) :
        x[i] < y[i] /\ \A j \in (p + 1)..(i - 1) : x[j] = y[j]

Minus(x, y) ==
    [p \in DOMAIN x |->
        (x[p] - y[p] - (IF Borrow(x, y, p) THEN 1 ELSE 0) + 2) % 2]

\* Math.abs(x - y)
AbsDiff(x, y) ==
    RoundToDouble(IF Less(x, y) THEN Minus(y, x) ELSE Minus(x, y), FALSE)

\* let bestDiff = Infinity; diff < bestDiff
Infinity == <<>>
DiffLess(diff, bestDiff) == bestDiff = Infinity \/ Less(diff, bestDiff)

\* for (const ratio of SUPPORTED_RATIOS), from the i-th ratio on.
RECURSIVE RatioLoop(_, _, _, _)
RatioLoop(i, target, best, bestDiff) ==
    IF i > Len(SUPPORTED_RATIOS) THEN best
    ELSE LET ratio == SUPPORTED_RATIOS[i]
             diff == AbsDiff(Divide(RatioParts(ratio)[1], RatioParts(ratio)[2]),
                             target)
         IN  IF DiffLess(diff, bestDiff)
             THEN RatioLoop(i + 1, target, ratio, diff)
             ELSE RatioLoop(i + 1, target, best, bestDiff)

\* A search for the ratio nearest to height / width.
closestAspectRatioOfInverse(width, height) ==
    RatioLoop(1, Divide(height, width), "1:1", Infinity)

closestAspectRatio(width, height) ==
    RatioLoop(1, Divide(width, height), "1:1", Infinity)

\* The widths and heights the function is applied to: values the headers
\* schema of the restyle route admits (integers in 512..4096 divisible by 8).
Dimensions ==
    {512, 544, 560, 576, 640, 768, 816, 1080, 1184, 1920, 2560, 4096}

\* A slot holds an application of the function: its arguments, then its value.
RatioInit ==
    \E w \in Dimensions, h \in Dimensions :
        /\ pc = [s \in Slots |-> IF s \in SeqSlots THEN "ratio" ELSE "idle"]
        /\ req = [s \in Slots |->
                    IF s \in SeqSlots
                    THEN [route |-> "closestAspectRatio", width |-> w, height |-> h]
                    ELSE NoReq]
        /\ calls = [s \in Slots |-> <<>>]
        /\ resp = [s \in Slots |-> NoResp]
        /\ job = NoJob

ClosestAspectRatioReturns(s) ==
    /\ pc[s] = "ratio"
    /\ resp' = [resp EXCEPT ![s] =
            [code |-> 0,
             aspect_ratio |-> closestAspectRatio(req[s].width, req[s].height)]]
    /\ pc' = [pc EXCEPT ![s] = "returned"]
    /\ UNCHANGED <<req, calls, job>>

RatioNext == \E s \in SeqSlots : ClosestAspectRatioReturns(s)

RatioSpec == RatioInit /\ [][RatioNext]_vars

--------------------------------------------------------------------------
(* The application of index.ts: the middleware registered with app.use run *)
(* in the order of their registration for every path they match, then the  *)
(* route handler.                                                          *)

\* A path is the route it is mounted under and what follows it.
Path(base, rest) == [base |-> base, rest |-> rest]

AppPaths ==
    {Path("", "/"), Path("/models", ""), Path("/generate", ""),
     Path("/restyle", ""), Path("/wallpaper", ""),
     Path("/wallpaper", "/status/abc123"), Path("/wallpaper", "/result/abc123")}

\* A request header: missing, or there with a value.
NoHeader == [present |-> FALSE, value |-> ""]
Header(value) == [present |-> TRUE, value |-> value]

KeyHeaders == {NoHeader, Header(""), Header("secret")}

AppRequests ==
    {[route |-> "app", path |-> p, falKey |-> f, googleKey |-> g] :
        p \in AppPaths, f \in KeyHeaders, g \in KeyHeaders}

\* app.use(pattern, middleware), in the order of index.ts.
Registered ==
    <<[pattern |-> "*", middleware |-> "requestLogger"],
      [pattern |-> "/models/*", middleware |-> "falKeyMiddleware"],
      [pattern |-> "/generate/*", middleware |-> "falKeyMiddleware"],
      [pattern |-> "/restyle/*", middleware |-> "falKeyMiddleware"],
      [pattern |-> "/wallpaper/*", middleware |-> "falKeyMiddleware"],
      [pattern |-> "/wallpaper/*", middleware |-> "googleKeyMiddleware"]>>

\* "*" matches every path, "/base/*" the paths "/base" and "/base/...".
Matches(pattern, path) ==
    pattern = "*" \/ (path.base # "" /\ pattern = path.base \o "/*")

\* The variables of the context of a request (c.set, c.get): none is set
\* when the request arrives.
NoVariables == [k \in {} |-> ""]

Continue(var) == [kind |-> "next", var |-> var]
Reply(response) == [kind |-> "response", response |-> response]

\* requestLogger: c.get("logger") is undefined unless a middleware before it
\* has set it, and logger.info then throws.
requestLogger(request, var) ==
    IF "logger" \in DOMAIN var THEN Continue(var)
    ELSE Reply(OnError(TypeErrorMessage))

\* falKeyMiddleware: if (!key) return 401; c.set("falKey", key); next().
falKeyMiddleware(request, var) ==
    IF ~request.falKey.present \/ request.falKey.value = ""
    THEN Reply(Json(401, [error |-> "Missing X-Fal-Key header. Provide your fal.ai API key."]))
    ELSE Continue(("falKey" :> request.falKey.value) @@ var)

\* googleKeyMiddleware: if (!key) return 401; c.set("googleKey", key); next().
googleKeyMiddleware(request, var) ==
    IF ~request.googleKey.present \/ request.googleKey.value = ""
    THEN Reply(MissingGoogleKey)
    ELSE Continue(("googleKey" :> request.googleKey.value) @@ var)

Run(middleware, request, var) ==
    CASE middleware = "requestLogger" -> requestLogger(request, var)
      [] middleware = "falKeyMiddleware" -> falKeyMiddleware(request, var)
      [] middleware = "googleKeyMiddleware" -> googleKeyMiddleware(request, var)

\* The middleware from the i-th registration on, for a request: the first
\* that replies or throws ends the chain, else the route handler is next.
RECURSIVE Chain(_, _, _)
Chain(i, request, var) ==
    IF i > Len(Registered) THEN Continue(var)
    ELSE IF ~Matches(Registered[i].pattern, request.path)
         THEN Chain(i + 1, request, var)
    ELSE LET out == Run(Registered[i].middleware, request, var) IN
         IF out.kind = "next" THEN Chain(i + 1, request, out.var) ELSE out

\* A request arrives at the application.
AppReceive(s) ==
    /\ pc[s] = "idle"
    /\ \E r \in AppRequests : req' = [req EXCEPT ![s] = r]
    /\ pc' = [pc EXCEPT ![s] = "middleware"]
    /\ UNCHANGED <<calls, resp, job>>

\* Its middleware run; a request they let through is handed to the handler
\* of its route with the variables they set.
AppMiddleware(s) ==
    /\ pc[s] = "middleware"
    /\ LET out == Chain(1, req[s], NoVariables) IN
        IF out.kind = "response"
        THEN /\ resp' = [resp EXCEPT ![s] = out.response]
             /\ pc' = [pc EXCEPT ![s] = "done"]
             /\ UNCHANGED req
        ELSE /\ req' = [req EXCEPT ![s] = [@ EXCEPT !.route = "handler"] @@ [var |-> out.var]]
             /\ pc' = [pc EXCEPT ![s] = "handler"]
             /\ UNCHANGED resp
    /\ UNCHANGED <<calls, job>>

AppNext ==
    \E s \in SeqSlots :
        \/ AppReceive(s)
        \/ AppMiddleware(s)
        \/ Respond(s)

AppSpec == Init /\ [][AppNext]_vars

--------------------------------------------------------------------------
(* GET /models: the model search of the platform API and the pricing of   *)
(* the models it returns (fetchModels and fetchPricing of fal.ts).        *)

Null == [null |-> TRUE]

\* A query parameter: missing, or its text (for limit, the number that
\* Number(text) gives).
NoParam == [present |-> FALSE, value |-> "", n |-> 0]
Param(value) == [present |-> TRUE, value |-> value, n |-> 0]
NumParam(n) == [present |-> TRUE, value |-> "", n |-> n]

ModelsRequests ==
    [route : {"models"},
     category : {NoParam, Param("image-to-image")},
     q : {NoParam, Param(""), Param("cat")},
     limit : {NoParam, NumParam(0), NumParam(10)},
     cursor : {NoParam, Param("c1")}]

\* The search parameters that fetchModels sets: category (text-to-image
\* when the query has none), status, limit (50 when the query has none or
\* zero), and q and cursor when they are not empty.
ModelsQuery(request) ==
    [category |-> IF request.category.present THEN request.category.value
                  ELSE "text-to-image",
     status |-> "active",
     limit |-> IF request.limit.present /\ request.limit.n # 0
               THEN request.limit.n ELSE 50]
    @@ (IF request.q.present /\ request.q.value # ""
        THEN [q |-> request.q.value] ELSE <<>>)
    @@ (IF request.cursor.present /\ request.cursor.value # ""
        THEN [cursor |-> request.cursor.value] ELSE <<>>)

\* An entry of the search result: its endpoint_id and whether its metadata
\* has a thumbnail_url (the other metadata are copied as they are).
ModelA == [endpoint_id |-> "fal-ai/a", hasThumbnail |-> TRUE]
ModelB == [endpoint_id |-> "fal-ai/b", hasThumbnail |-> FALSE]
ModelLists == {<<>>, <<ModelA>>, <<ModelA, ModelB>>}

\* The status and statusText of a search response that is not ok.
ModelsHttpFailures ==
    {<<500, "Internal Server Error">>, <<401, "Unauthorized">>, <<404, "">>}

\* The model search settles to: a rejection of fetch ("throw"), a response
\* that is not ok ("http"), a body that is no JSON ("badjson"), or a list.
ModelsOutcomes ==
    {[kind |-> k, status |-> 200, statusText |-> "OK",
      models |-> <<>>, has_more |-> FALSE, next_cursor |-> Null] :
        k \in {"throw", "badjson"}}
    \cup {[kind |-> "http", status |-> f[1], statusText |-> f[2],
            models |-> <<>>, has_more |-> FALSE, next_cursor |-> Null] :
            f \in ModelsHttpFailures}
    \cup {[kind |-> "list", status |-> 200, statusText |-> "OK",
            models |-> l, has_more |-> m, next_cursor |-> c] :
            l \in ModelLists, m \in BOOLEAN, c \in {Null, [cursor |-> "c2"]}}

\* The message of what fetchModels throws: its own Error for a response
\* that is not ok (fal.ts 44-46), else the error of fetch or of res.json().
ModelsErrorMessage(out) ==
    IF out.kind = "http"
    THEN "fal.ai model search failed: " \o ToString(out.status)
            \o " " \o out.statusText
    ELSE UpstreamMessage

\* A price of the pricing response.
Price(id, cents) ==
    [endpoint_id |-> id, unit_price |-> cents, unit |-> "image", currency |-> "USD"]

PriceLists ==
    {<<>>, <<Price("fal-ai/a", 5)>>, <<Price("fal-ai/b", 3), Price("fal-ai/a", 5)>>,
     <<Price("fal-ai/a", 5), Price("fal-ai/a", 7)>>}

\* The pricing request settles to: a rejection of fetch ("throw"), a
\* response that is not ok ("http"), a body that is no JSON ("badjson"), a
\* JSON body without a list of prices ("noprices"), or a list of prices.
PricingOutcomes ==
    {[kind |-> k, prices |-> <<>>] : k \in {"throw", "http", "badjson", "noprices"}}
    \cup {[kind |-> "prices", prices |-> l] : l \in PriceLists}

\* fetchPricing throws what its awaits throw: only the response that is
\* not ok is answered by the empty map (fal.ts 84-90); the rejection of
\* fetch (80), the rejection of res.json() (94) and the iteration of
\* data.prices (96) are not guarded.
PricingThrows(out) == out.kind \in {"throw", "badjson", "noprices"}

\* The map that fetchPricing returns, as the list of its insertions.
fetchPricing(out) == IF out.kind = "prices" THEN out.prices ELSE <<>>

\* pricing.get(id): the last entry set for id, if any.
PriceOf(map, id) ==
    LET at == {i \in DOMAIN map : map[i].endpoint_id = id} IN
    IF at = {} THEN Null
    ELSE LET p == map[CHOOSE i \in at : \A j \in at : j <= i] IN
         [unit_price |-> p.unit_price, unit |-> p.unit, currency |-> p.currency]

\* An entry of the merged response.
Merged(m, map) ==
    [id |-> m.endpoint_id,
     thumbnail_url |-> IF m.hasThumbnail THEN [url |-> m.endpoint_id] ELSE Null,
     pricing |-> PriceOf(map, m.endpoint_id)]

ModelsReply(found, map) ==
    Json(200, [models |-> [i \in DOMAIN found.models |-> Merged(found.models[i], map)],
               has_more |-> found.has_more,
               next_cursor |-> found.next_cursor])

\* The catch block of the models handler (models.ts 56-65).
ModelsFailed(message) ==
    Json(502, [error |-> "Failed to fetch models from fal.ai",
               message |-> message])

\* The models handler up to the fetch of fetchModels.
ReceiveModels(s) ==
    /\ pc[s] = "idle"
    /\ \E request \in ModelsRequests :
        /\ req' = [req EXCEPT ![s] = request]
        /\ calls' = [calls EXCEPT ![s] = <<Call("platform.models", ModelsQuery(request))>>]
    /\ pc' = [pc EXCEPT ![s] = "models_search"]
    /\ UNCHANGED <<resp, job>>

\* The model search settles: fetchPricing is called for the models found,
\* and makes no request when there are none.
ModelsReturns(s) ==
    /\ pc[s] = "models_search"
    /\ \E out \in ModelsOutcomes :
        IF out.kind # "list"
        THEN /\ calls' = [calls EXCEPT ![s] = Settle(@, out)]
             /\ resp' = [resp EXCEPT ![s] = ModelsFailed(ModelsErrorMessage(out))]
             /\ pc' = [pc EXCEPT ![s] = "done"]
        ELSE IF out.models = <<>>
        THEN /\ calls' = [calls EXCEPT ![s] = Settle(@, out)]
             /\ resp' = [resp EXCEPT ![s] = ModelsReply(out, <<>>)]
             /\ pc' = [pc EXCEPT ![s] = "done"]
        ELSE /\ calls' = [calls EXCEPT ![s] =
                    Append(Settle(@, out),
                           Call("platform.pricing",
                                [i \in DOMAIN out.models |-> out.models[i].endpoint_id]))]
             /\ pc' = [pc EXCEPT ![s] = "models_pricing"]
             /\ UNCHANGED resp
    /\ UNCHANGED <<req, job>>

\* The pricing request settles.
PricingReturns(s) ==
    /\ pc[s] = "models_pricing"
    /\ \E out \in PricingOutcomes :
        /\ calls' = [calls EXCEPT ![s] = Settle(@, out)]
        /\ resp' = [resp EXCEPT ![s] =
                IF PricingThrows(out) THEN ModelsFailed(UpstreamMessage)
                ELSE ModelsReply(calls[s][1].out, fetchPricing(out))]
    /\ pc' = [pc EXCEPT ![s] = "done"]
    /\ UNCHANGED <<req, job>>

ModelsNext ==
    \E s \in SeqSlots :
        \/ ReceiveModels(s)
        \/ ModelsReturns(s)
        \/ PricingReturns(s)
        \/ Respond(s)

ModelsSpec == Init /\ [][ModelsNext]_vars

--------------------------------------------------------------------------
(* The header record that requestLogger logs (middleware.ts 27-35, 52-57). *)
(* A request carries header lines, each a name as the client wrote it and *)
(* a value.  The record is computed for a request whose context holds a   *)
(* logger; the emission is the call logger.info.                          *)

HeaderNames == {"X-Fal-Key", "x-fal-key", "X-GOOGLE-KEY", "Accept", "__proto__"}
HeaderValues == {"k1", "k2"}
HeaderLine(name, value) == [name |-> name, value |-> value]
HeaderLines == {HeaderLine(n, v) : n \in HeaderNames, v \in HeaderValues}

MaxHeaders == 2

SentHeaders == UNION {[1..n -> HeaderLines] : n \in 0..MaxHeaders}

\* String.prototype.toLowerCase on the names in use.
ToLowerCase(name) ==
    CASE name \in {"X-Fal-Key", "x-fal-key"} -> "x-fal-key"
      [] name = "X-GOOGLE-KEY" -> "x-google-key"
      [] name = "Accept" -> "accept"
      [] OTHER -> name

\* The value of a header in a Headers object: the values of its lines, in
\* order, joined by ", ".
RECURSIVE Joined(_, _)
Joined(sent, name) ==
    IF sent = <<>> THEN ""
    ELSE LET rest == Joined(Tail(sent), name) IN
         IF ToLowerCase(Head(sent).name) # name THEN rest
         ELSE IF rest = "" THEN Head(sent).value
         ELSE Head(sent).value \o ", " \o rest

\* Object.fromEntries(c.req.raw.headers.entries()): one property per
\* header, named in lower case.
HeaderEntries(sent) ==
    [name \in {ToLowerCase(sent[i].name) : i \in DOMAIN sent} |-> Joined(sent, name)]

REDACT_HEADERS == {"x-fal-key", "x-google-key"}

\* redactHeaders: out[k] = ... for every entry.  out is a plain object, so
\* the assignment out["__proto__"] = <string> runs the __proto__ setter of
\* Object.prototype, which ignores a string: no property is created.
redactHeaders(headers) ==
    [k \in DOMAIN headers \ {"__proto__"} |->
        IF ToLowerCase(k) \in REDACT_HEADERS THEN "[REDACTED]" ELSE headers[k]]

\* A request arrives at requestLogger.
HeadersReceive(s) ==
    /\ pc[s] = "idle"
    /\ \E sent \in SentHeaders :
          req' = [req EXCEPT ![s] = [route |-> "requestLogger", headers |-> sent]]
    /\ pc' = [pc EXCEPT ![s] = "logging"]
    /\ UNCHANGED <<calls, resp, job>>

\* requestLogger emits "incoming request" with the redacted record.
HeadersLogged(s) ==
    /\ pc[s] = "logging"
    /\ calls' = [calls EXCEPT ![s] =
            <<[svc |-> "logger.info",
               arg |-> [headers |-> redactHeaders(HeaderEntries(req[s].headers))],
               out |-> [ok |-> TRUE]]>>]
    /\ pc' = [pc EXCEPT ![s] = "done"]
    /\ UNCHANGED <<req, resp, job>>

HeadersNext ==
    \E s \in SeqSlots :
        \/ HeadersReceive(s)
        \/ HeadersLogged(s)
        \/ Respond(s)

HeadersSpec == Init /\ [][HeadersNext]_vars

--------------------------------------------------------------------------
(* Properties of the status handler                                        *)

\* The number of calls to a service issued for the request of slot s.
NumCalls(s, svc) ==
    Cardinality({i \in DOMAIN calls[s] : calls[s][i].svc = svc})

Done(s, route) == pc[s] = "done" /\ req[s].route = route

\* The request of slot s is a poll whose status query has settled.
Polled(s) ==
    /\ req[s].route = "status"
    /\ Len(calls[s]) >= 1
    /\ "ok" \in DOMAIN calls[s][1].out

\* The poll of slot s is answered and its status query reported state st.
PollReported(s, st) ==
    /\ Done(s, "status")
    /\ Polled(s)
    /\ calls[s][1].out.ok
    /\ calls[s][1].out.status = st

\* C1 as stated: polling a job that the render service reports as completed
\* performs exactly one result fetch in the same poll and returns status
\* COMPLETED with an image_url field holding the URL of the first image of
\* the result.
C1_AsStated ==
    \A s \in Slots :
        PollReported(s, "COMPLETED") =>
            /\ NumCalls(s, "queue.result") = 1
            /\ resp[s].code = 200
            /\ "status" \in DOMAIN resp[s].body
            /\ resp[s].body.status = "COMPLETED"
            /\ "image_url" \in DOMAIN resp[s].body
            /\ calls[s][2].out.ok
            /\ ~NoImages(calls[s][2].out)
            /\ resp[s].body.image_url = calls[s][2].out.images[1].url

\* C1 (amended): polling a job that the render service reports as completed
\* performs exactly one result fetch in the same poll; when that fetch
\* succeeds the poll returns status COMPLETED, with an image_url field
\* holding the URL of the first image when the result has an image and with
\* no image_url field when it has none.
C1_CompletedFetchesOnce ==
    \A s \in Slots :
        PollReported(s, "COMPLETED") =>
            /\ NumCalls(s, "queue.result") = 1
            /\ calls[s][2].out.ok =>
                /\ resp[s].code = 200
                /\ "status" \in DOMAIN resp[s].body
                /\ resp[s].body.status = "COMPLETED"
                /\ IF NoImages(calls[s][2].out)
                   THEN "image_url" \notin DOMAIN resp[s].body
                   ELSE /\ "image_url" \in DOMAIN resp[s].body
                        /\ resp[s].body.image_url = calls[s][2].out.images[1].url

\* A completed poll whose result holds two images with different URLs is
\* answered with the URL of the first.
C1_Witness ==
    \E s \in Slots :
        /\ PollReported(s, "COMPLETED")
        /\ calls[s][2].out.ok
        /\ Len(calls[s][2].out.images) = 2
        /\ calls[s][2].out.images[1].url # calls[s][2].out.images[2].url
        /\ "image_url" \in DOMAIN resp[s].body
        /\ resp[s].body.image_url = calls[s][2].out.images[1].url

\* The poll of slot s is answered and one of its calls threw err.
PollThrew(s, err) ==
    /\ Done(s, "status")
    /\ Polled(s)
    /\ \E i \in DOMAIN calls[s] :
        /\ ~calls[s][i].out.ok
        /\ calls[s][i].out.err = err

\* C8: an error raised while polling, by the status query or by the result
\* fetch, is returned as an {error, status} value and never thrown: the
\* status endpoint answers with the error's message, with the upstream
\* status code when it is a number in 400-599 and with 500 otherwise.
C8_PollErrorsAreReturned ==
    \A s \in Slots : \A err \in Errors :
        PollThrew(s, err) =>
            /\ resp[s].kind = "json"
            /\ DOMAIN resp[s].body = {"error"}
            /\ resp[s].body.error =
                (IF err.isError THEN UpstreamMessage ELSE "Failed to get queue status")
            /\ resp[s].body.error # Unhandled.body.error
            /\ resp[s].code =
                (IF err.hasStatus /\ err.status >= 400 /\ err.status <= 599
                 THEN err.status ELSE 500)

\* A result fetch that throws with status 404 inside a poll is answered 404.
C8_Witness ==
    \E s \in Slots : \E err \in Errors :
        /\ PollThrew(s, err)
        /\ Len(calls[s]) = 2
        /\ err.hasStatus
        /\ err.status = 404
        /\ resp[s].code = 404

\* C9: when the render service reports a job as completed but the result
\* fetch made in the same poll fails, the whole poll fails: the response is
\* an error and carries no status field.
C9_ResultFailureFailsPoll ==
    \A s \in Slots :
        (PollReported(s, "COMPLETED") /\ ~calls[s][2].out.ok) =>
            /\ resp[s].code >= 400
            /\ "error" \in DOMAIN resp[s].body
            /\ "status" \notin DOMAIN resp[s].body
            /\ "image_url" \notin DOMAIN resp[s].body

C9_Witness ==
    \E s \in Slots :
        /\ PollReported(s, "COMPLETED")
        /\ ~calls[s][2].out.ok
        /\ resp[s].code = 500
        /\ "error" \in DOMAIN resp[s].body

\* C10: polling a job reported as in queue returns status IN_QUEUE with
\* queue_position equal to the upstream position when the upstream reports
\* one, and no image_url field; polling a job reported as in progress
\* returns status IN_PROGRESS with neither queue_position nor image_url.
C10_QueuedAndRunning ==
    \A s \in Slots :
        /\ PollReported(s, "IN_QUEUE") =>
            /\ resp[s].code = 200
            /\ "status" \in DOMAIN resp[s].body
            /\ resp[s].body.status = "IN_QUEUE"
            /\ calls[s][1].out.hasPos =>
                /\ "queue_position" \in DOMAIN resp[s].body
                /\ resp[s].body.queue_position = calls[s][1].out.pos
            /\ "image_url" \notin DOMAIN resp[s].body
        /\ PollReported(s, "IN_PROGRESS") =>
            /\ resp[s].code = 200
            /\ DOMAIN resp[s].body = {"status"}
            /\ resp[s].body.status = "IN_PROGRESS"

\* A job reported in queue at position 0 is answered with queue_position 0,
\* and a job reported in progress together with a position is answered
\* without it.
C10_Witness ==
    \E s \in Slots :
        \/ /\ PollReported(s, "IN_QUEUE")
           /\ calls[s][1].out.hasPos
           /\ calls[s][1].out.pos = 0
           /\ "queue_position" \in DOMAIN resp[s].body
           /\ resp[s].body.queue_position = 0
        \/ /\ PollReported(s, "IN_PROGRESS")
           /\ calls[s][1].out.hasPos
           /\ DOMAIN resp[s].body = {"status"}

--------------------------------------------------------------------------
(* Properties of the result handler                                        *)

\* The result request of slot s is answered and its result fetch threw an
\* error carrying the numeric status st.
ResultFetchFailedWith(s, st) ==
    /\ Done(s, "result")
    /\ Len(calls[s]) >= 1
    /\ ~calls[s][1].out.ok
    /\ calls[s][1].out.err.hasStatus
    /\ calls[s][1].out.err.status = st

\* C2 as stated: a result fetch that fails with any client-error status
\* (4xx) yields the not-ready outcome and never an error response.
C2_AsStated ==
    \A s \in Slots : \A st \in 400..499 :
        ResultFetchFailedWith(s, st) =>
            /\ resp[s].code = 202
            /\ "error" \notin DOMAIN resp[s].body
            /\ "status" \in DOMAIN resp[s].body
            /\ resp[s].body.status = "IN_PROGRESS"

\* C2 (amended): a result fetch that fails with status 400 yields the
\* not-ready outcome (202, status IN_PROGRESS) and never an error response;
\* a failure with any other client-error status is answered as an error
\* with that status.
C2_NotReadyOn400 ==
    \A s \in Slots :
        /\ ResultFetchFailedWith(s, 400) =>
            /\ resp[s].code = 202
            /\ "error" \notin DOMAIN resp[s].body
            /\ "status" \in DOMAIN resp[s].body
            /\ resp[s].body.status = "IN_PROGRESS"
        /\ \A st \in 401..499 :
            ResultFetchFailedWith(s, st) =>
                /\ resp[s].code = st
                /\ DOMAIN resp[s].body = {"error"}

C2_Witness ==
    \E s \in Slots :
        /\ ResultFetchFailedWith(s, 400)
        /\ resp[s].code = 202
        /\ "status" \in DOMAIN resp[s].body
        /\ resp[s].body.status = "IN_PROGRESS"

\* C7: a failure to fetch the image bytes from the content-delivery URL, be
\* it a response that is not ok or a rejection of the fetch, is always
\* reported as the failed-to-fetch-generated-image condition (502) and never
\* by the response of a render-service error.
C7_CdnFailureIsDistinct ==
    \A s \in Slots :
        (/\ Done(s, "result")
         /\ Len(calls[s]) = 2
         /\ (~calls[s][2].out.ok \/ ~calls[s][2].out.httpOk)) =>
            /\ resp[s].code = 502
            /\ DOMAIN resp[s].body = {"error"}
            /\ resp[s].body.error = "Failed to fetch the generated image from CDN"

--------------------------------------------------------------------------
(* Properties of the Submit handler                                        *)

\* The fields of a body as the contract states them: city 1-200 characters,
\* weather 1-500, datetime 1-200, width and height integers in [512, 4096]
\* divisible by 8.
StringWithin(v, max) == v.t = "str" /\ v.len >= 1 /\ v.len <= max

DimensionValid(v) ==
    v.t = "num" /\ ~v.frac /\ v.n >= 512 /\ v.n <= 4096 /\ v.n % 8 = 0

BodyFields == {"city", "weather", "datetime", "width", "height"}

FieldValid(body, f) ==
    CASE f = "city" -> StringWithin(body.city, 200)
      [] f = "weather" -> StringWithin(body.weather, 500)
      [] f = "datetime" -> StringWithin(body.datetime, 200)
      [] f = "width" -> DimensionValid(body.width)
      [] f = "height" -> DimensionValid(body.height)

BodyValid(body) ==
    body.kind = "object" /\ \A f \in BodyFields : FieldValid(body, f)

\* The number of detail entries of a response that name field f.
DetailsFor(r, f) ==
    Cardinality({i \in DOMAIN r.body.details : r.body.details[i].field = f})

\* No external call is issued for a request whose body is not valid.
NoCallUnlessValid(s) ==
    (req[s].route = "submit" /\ calls[s] # <<>>) => BodyValid(req[s].body)

\* C3 as stated: in Submit no call to the language model or to the render
\* service is issued unless the body is valid JSON and passes validation; an
\* invalid request is answered with 400 carrying one detail entry per
\* failing field.
C3_AsStated ==
    \A s \in Slots :
        /\ NoCallUnlessValid(s)
        /\ (Done(s, "submit") /\ req[s].body.kind = "object"
                /\ ~BodyValid(req[s].body)) =>
            /\ resp[s].code = 400
            /\ "details" \in DOMAIN resp[s].body
            /\ \A f \in BodyFields :
                DetailsFor(resp[s], f) =
                    (IF FieldValid(req[s].body, f) THEN 0 ELSE 1)

\* C3 (amended): in Submit no call to the language model or to the render
\* service is issued unless the body is valid JSON and passes validation; an
\* invalid request is answered with 400, without details when the body does
\* not parse or is falsy, and otherwise with one detail entry per failing
\* check: at least one for each failing field, none for a passing field,
\* and a single entry with an empty field name for a body that is no object.
C3_ValidatedBeforeCalls ==
    \A s \in Slots :
        /\ NoCallUnlessValid(s)
        /\ (Done(s, "submit") /\ ~BodyValid(req[s].body)) =>
            /\ resp[s].code = 400
            /\ NoBody(req[s].body) => "details" \notin DOMAIN resp[s].body
            /\ ~NoBody(req[s].body) =>
                /\ "details" \in DOMAIN resp[s].body
                /\ Len(resp[s].body.details) >= 1
                /\ req[s].body.kind = "object" =>
                    \A f \in BodyFields :
                        (DetailsFor(resp[s], f) >= 1) <=> ~FieldValid(req[s].body, f)
                /\ req[s].body.kind # "object" =>
                    /\ Len(resp[s].body.details) = 1
                    /\ resp[s].body.details[1].field = ""

\* A body whose only flaw is a width of 511 (below the minimum and not
\* divisible by 8) is answered 400 with two detail entries for width, and
\* no call was issued.
C3_Witness ==
    \E s \in Slots :
        /\ Done(s, "submit")
        /\ req[s].body.kind = "object"
        /\ req[s].body.width = Num(511)
        /\ \A f \in BodyFields \ {"width"} : FieldValid(req[s].body, f)
        /\ resp[s].code = 400
        /\ DetailsFor(resp[s], "width") = 2
        /\ calls[s] = <<>>

\* The language-model call of the Submit request of slot s has settled.
Synthesized(s) ==
    /\ req[s].route = "submit"
    /\ Len(calls[s]) >= 1
    /\ "kind" \in DOMAIN calls[s][1].out

\* C4: a scene description that lacks subjects, color_palette, lighting or
\* mood after parsing makes prompt synthesis fail: Submit answers with a
\* prompt-generation failure and submits no job to the render queue.
C4_IncompleteSceneFails ==
    \A s \in Slots :
        (/\ Synthesized(s)
         /\ calls[s][1].out.kind = "scene"
         /\ calls[s][1].out.missing
                \cap {"subjects", "color_palette", "lighting", "mood"} # {}) =>
            /\ NumCalls(s, "queue.submit") = 0
            /\ pc[s] = "done" =>
                /\ resp[s].code = 502
                /\ resp[s].body.error = "Prompt generation failed"

CountKind(subjects, type) ==
    Cardinality({i \in DOMAIN subjects : subjects[i].type = type})

\* C5: a job is submitted to the render queue only if the model-produced
\* subject list holds at least one Landmark and exactly one Environment.
C5_SubjectKindsChecked ==
    \A s \in Slots :
        (Synthesized(s) /\ NumCalls(s, "queue.submit") > 0) =>
            /\ CountKind(calls[s][1].out.subjects, "Landmark") >= 1
            /\ CountKind(calls[s][1].out.subjects, "Environment") = 1

\* C6: when the language-model call returns a non-success status, no text
\* payload, or a text that does not parse as JSON, Submit answers 502
\* "Prompt generation failed", which no render-queue failure is answered
\* with, and no job is submitted to the render queue.
C6_PromptFailureIsDistinct ==
    \A s \in Slots :
        /\ (Synthesized(s)
                /\ calls[s][1].out.kind \in {"http", "notext", "unparseable"}) =>
            /\ NumCalls(s, "queue.submit") = 0
            /\ pc[s] = "done" =>
                /\ resp[s].code = 502
                /\ resp[s].body.error = "Prompt generation failed"
        /\ (Done(s, "submit") /\ Len(calls[s]) = 2 /\ ~calls[s][2].out.ok) =>
            resp[s].body.error = "Queue submission failed"

\* The language model answered 503, Submit answered 502 "Prompt generation
\* failed" and submitted no job.
C6_Witness ==
    \E s \in Slots :
        /\ Done(s, "submit")
        /\ Synthesized(s)
        /\ calls[s][1].out.kind = "http"
        /\ calls[s][1].out.status = 503
        /\ resp[s].code = 502
        /\ resp[s].body.error = "Prompt generation failed"
        /\ NumCalls(s, "queue.submit") = 0

\* The Submit request of slot s is answered and its queue submission threw.
SubmissionThrew(s) ==
    /\ Done(s, "submit")
    /\ Len(calls[s]) = 2
    /\ calls[s][2].svc = "queue.submit"
    /\ ~calls[s][2].out.ok

\* C11: any error of the queue submission call makes Submit answer "Queue
\* submission failed", with the upstream status code unchanged when it is a
\* number in 400-599, and with 500 when the error has no numeric status or
\* the status is outside that range.
C11_SubmissionErrorStatus ==
    \A s \in Slots :
        SubmissionThrew(s) =>
            LET err == calls[s][2].out.err IN
            /\ resp[s].kind = "json"
            /\ resp[s].body.error = "Queue submission failed"
            /\ resp[s].code =
                (IF err.hasStatus /\ err.status >= 400 /\ err.status <= 599
                 THEN err.status ELSE 500)

\* A submission that fails with status 600, just outside the range, is
\* answered 500 "Queue submission failed".
C11_Witness ==
    \E s \in Slots :
        /\ SubmissionThrew(s)
        /\ calls[s][2].out.err.hasStatus
        /\ calls[s][2].out.err.status = 600
        /\ resp[s].code = 500
        /\ resp[s].body.error = "Queue submission failed"

--------------------------------------------------------------------------
(* Properties of the calls the handlers issue                              *)

Services == {"gemini", "queue.submit", "queue.status", "queue.result", "cdn"}

\* A call that has settled to a failure: a rejection, a language-model
\* answer that is no scene description, a content response that is not ok.
CallFailed(c) ==
    IF "kind" \in DOMAIN c.out THEN c.out.kind # "scene"
    ELSE IF "httpOk" \in DOMAIN c.out THEN ~c.out.httpOk
    ELSE IF "ok" \in DOMAIN c.out THEN ~c.out.ok
    ELSE FALSE

\* C12: in every handler of the wallpaper workflow each external call
\* (language model, queue submit, queue status, queue result, content fetch)
\* is issued at most once per inbound request, whether it succeeds or fails:
\* no call follows a call that failed.
C12_NoRetry ==
    \A s \in Slots :
        /\ \A svc \in Services : NumCalls(s, svc) <= 1
        /\ \A i \in DOMAIN calls[s] : calls[s][i].svc \in Services
        /\ \A i \in DOMAIN calls[s] : CallFailed(calls[s][i]) => i = Len(calls[s])

\* A Submit whose queue submission failed with 500 is answered after one
\* language-model call and one submission.
C12_Witness ==
    \E s \in Slots :
        /\ SubmissionThrew(s)
        /\ calls[s][2].out.err.hasStatus
        /\ calls[s][2].out.err.status = 500
        /\ NumCalls(s, "gemini") = 1
        /\ NumCalls(s, "queue.submit") = 1
        /\ resp[s].code = 500

--------------------------------------------------------------------------
(* Properties of the composed prompt                                       *)

\* The names of the fields of a serialized prompt, in their order, and the
\* value of the field of a name.
PromptNames(prompt) == [i \in DOMAIN prompt |-> prompt[i].name]

PromptValue(prompt, name) ==
    prompt[CHOOSE i \in DOMAIN prompt : prompt[i].name = name].value

\* The Submit request of slot s has issued its queue submission.
Submitted(s) ==
    /\ req[s].route = "submit"
    /\ Len(calls[s]) = 2
    /\ calls[s][2].svc = "queue.submit"

\* The model-produced subjects of a serialized prompt: what follows the two
\* fixed subjects.
ModelSubjects(prompt) ==
    SubSeq(PromptValue(prompt, "subjects"), 3,
           Len(PromptValue(prompt, "subjects")))

\* C13: in Submit the queue submission is issued only after the
\* language-model call has returned successfully, its prompt is built from
\* that call's output, and Submit answers right after the submission
\* returns without ever querying the job's status or result.
C13_SequentialSubmit ==
    \A s \in Slots :
        req[s].route = "submit" =>
            /\ \A i \in DOMAIN calls[s] :
                calls[s][i].svc = "queue.submit" =>
                    /\ i = 2
                    /\ calls[s][1].svc = "gemini"
                    /\ "kind" \in DOMAIN calls[s][1].out
                    /\ calls[s][1].out.kind = "scene"
                    /\ ModelSubjects(calls[s][i].arg.prompt) = calls[s][1].out.subjects
                    /\ {f \in DynamicFields :
                            \E k \in DOMAIN calls[s][i].arg.prompt :
                                calls[s][i].arg.prompt[k].name = f}
                        = DynamicFields \ calls[s][1].out.missing
            /\ \A i \in DOMAIN calls[s] :
                calls[s][i].svc \in {"gemini", "queue.submit"}
            /\ (Submitted(s) /\ "ok" \in DOMAIN calls[s][2].out) =>
                /\ pc[s] = "done"
                /\ resp[s] # NoResp

\* A Submit answered 202 after the model returned a tower and clouds, which
\* the submitted prompt holds, and after the submission returned.
C13_Witness ==
    \E s \in Slots :
        /\ Submitted(s)
        /\ pc[s] = "done"
        /\ resp[s].code = 202
        /\ calls[s][1].out.subjects = <<L1, E1>>
        /\ ModelSubjects(calls[s][2].arg.prompt) = <<L1, E1>>
        /\ calls[s][2].out.ok

\* C14: the subject list of the composed prompt is the fixed platform
\* subject, then the fixed urban-layout subject, then exactly the
\* model-produced subjects in their original order, none dropped, reordered
\* or deduplicated: its length is that of the model's list plus two.
C14_SubjectOrder ==
    \A s \in Slots :
        Submitted(s) =>
            LET subjects == PromptValue(calls[s][2].arg.prompt, "subjects")
                produced == calls[s][1].out.subjects
            IN  /\ Len(subjects) = Len(produced) + 2
                /\ subjects[1] = PLATFORM_SUBJECT
                /\ subjects[2] = URBAN_LAYOUT_SUBJECT
                /\ \A i \in DOMAIN produced : subjects[i + 2] = produced[i]

\* A model answer that names the tower twice, after the clouds and the
\* dome, is submitted with all four subjects after the two fixed ones.
C14_Witness ==
    \E s \in Slots :
        /\ Submitted(s)
        /\ calls[s][1].out.subjects = <<E1, L2, L1, L1>>
        /\ PromptValue(calls[s][2].arg.prompt, "subjects")
            = <<PLATFORM_SUBJECT, URBAN_LAYOUT_SUBJECT, E1, L2, L1, L1>>

TenFields ==
    <<"scene", "subjects", "color_palette", "lighting", "mood", "style",
      "composition", "camera", "platform", "environment">>

\* C15: the serialized composed prompt contains its ten fields in exactly
\* this order: scene, subjects, color_palette, lighting, mood, style,
\* composition (the fixed composition text followed by the orientation
\* hint), camera, platform, environment; every model-produced field
\* precedes every fixed style field.
C15_TenFieldsInOrder ==
    \A s \in Slots :
        Submitted(s) =>
            LET prompt == calls[s][2].arg.prompt IN
            /\ PromptNames(prompt) = TenFields
            /\ PromptValue(prompt, "composition") =
                HARDCODED_STYLE.composition \o " "
                    \o OrientationHint(req[s].body.width.n, req[s].body.height.n)

--------------------------------------------------------------------------
(* Properties of closestAspectRatio                                        *)

\* |w_i/h_i - width/height| < |w_j/h_j - width/height| for the i-th and
\* j-th supported ratios, in exact arithmetic (both sides multiplied by
\* h_i * h_j * height).
Abs(n) == IF n < 0 THEN -n ELSE n

Nearer(i, j, width, height) ==
    LET a == RatioParts(SUPPORTED_RATIOS[i])
        b == RatioParts(SUPPORTED_RATIOS[j])
    IN  Abs(a[1] * height - width * a[2]) * b[2]
            < Abs(b[1] * height - width * b[2]) * a[2]

\* The application of slot s has returned.
Returned(s) == pc[s] = "returned" /\ req[s].route = "closestAspectRatio"

\* C16: for every width and height in [512, 4096] divisible by 8,
\* closestAspectRatio returns the ratio of the supported list whose value
\* has the minimum absolute difference from width / height, and on a tie the
\* one with the smallest index in the list order.
C16_NearestFirstOnTie ==
    \A s \in Slots :
        Returned(s) =>
            \E i \in DOMAIN SUPPORTED_RATIOS :
                /\ resp[s].aspect_ratio = SUPPORTED_RATIOS[i]
                /\ \A j \in DOMAIN SUPPORTED_RATIOS :
                    ~Nearer(j, i, req[s].width, req[s].height)
                /\ \A j \in 1..(i - 1) :
                    Nearer(i, j, req[s].width, req[s].height)

--------------------------------------------------------------------------
(* Properties of the orientation                                           *)

Orientations == {"portrait", "landscape", "square"}

\* The label of the language-model message and the framing hint that name
\* an orientation.
LabelOf(o) ==
    CASE o = "portrait" -> "portrait/vertical (tall)"
      [] o = "landscape" -> "landscape/horizontal (wide)"
      [] o = "square" -> "square"

HintOf(o) ==
    CASE o = "portrait" ->
            "Vertical portrait framing-platform fully contained, centered, with sky above and below."
      [] o = "landscape" ->
            "Horizontal landscape framing-platform fully contained, centered."
      [] o = "square" -> "Square framing-platform centered with equal margin."

\* The language-model call of the Submit request of slot s is issued.
Prompted(s) ==
    /\ req[s].route = "submit"
    /\ Len(calls[s]) >= 1
    /\ calls[s][1].svc = "gemini"

\* C17: the orientation is portrait exactly when height > width, landscape
\* exactly when width > height and square exactly when they are equal,
\* exactly one of the three for every input; the orientation label sent to
\* the language model and the framing hint put in the composition string
\* name the same orientation.
C17_OrientationAgrees ==
    \A s \in Slots :
        Prompted(s) =>
            LET width == req[s].body.width.n
                height == req[s].body.height.n
                label == calls[s][1].arg.orientation
            IN  /\ Cardinality({o \in Orientations : label = LabelOf(o)}) = 1
                /\ label = LabelOf("portrait") <=> height > width
                /\ label = LabelOf("landscape") <=> width > height
                /\ label = LabelOf("square") <=> width = height
                /\ Submitted(s) =>
                    \E o \in Orientations :
                        /\ label = LabelOf(o)
                        /\ PromptValue(calls[s][2].arg.prompt, "composition")
                            = HARDCODED_STYLE.composition \o " " \o HintOf(o)

\* A square request (1080 by 1080) whose model call is labelled square and
\* whose submitted composition ends with the square framing hint.
C17_Witness ==
    \E s \in Slots :
        /\ Submitted(s)
        /\ req[s].body.width.n = 1080
        /\ req[s].body.height.n = 1080
        /\ calls[s][1].arg.orientation = "square"
        /\ PromptValue(calls[s][2].arg.prompt, "composition")
            = HARDCODED_STYLE.composition \o " " \o HintOf("square")

--------------------------------------------------------------------------
(* Further properties of the result handler                                *)

\* The result request of slot s is answered and its result fetch succeeded.
ResultFetched(s) ==
    /\ Done(s, "result")
    /\ Len(calls[s]) >= 1
    /\ calls[s][1].out.ok

\* C18: when the render service's result for a job contains no image (no
\* image list, or an empty one), the result endpoint fails with the
\* no-image-produced error (500) and makes no content fetch.
C18_NoImageProduced ==
    \A s \in Slots :
        (/\ ResultFetched(s)
         /\ (~calls[s][1].out.hasImages \/ calls[s][1].out.images = <<>>)) =>
            /\ resp[s].kind = "json"
            /\ resp[s].code = 500
            /\ resp[s].body = [error |-> "No image was generated by the model"]
            /\ NumCalls(s, "cdn") = 0
            /\ Len(calls[s]) = 1

\* A result whose image list is empty is answered 500 without a content
\* fetch.
C18_Witness ==
    \E s \in Slots :
        /\ ResultFetched(s)
        /\ calls[s][1].out.hasImages
        /\ calls[s][1].out.images = <<>>
        /\ resp[s].code = 500
        /\ NumCalls(s, "cdn") = 0

\* The result request of slot s is answered with the streamed image.
Streamed(s) ==
    /\ Done(s, "result")
    /\ resp[s].kind = "stream"

\* C19: the Content-Type of a streamed result is the render service's
\* reported content type of the first image when that is non-empty,
\* otherwise the content type of the content-delivery response when
\* present, otherwise image/png.
C19_ContentTypePreference ==
    \A s \in Slots :
        Streamed(s) =>
            LET reported == calls[s][1].out.images[1].content_type
                delivered == calls[s][2].out.contentType
            IN  /\ Len(calls[s]) = 2
                /\ reported # "" => resp[s].contentType = reported
                /\ (reported = "" /\ delivered # "") =>
                        resp[s].contentType = delivered
                /\ (reported = "" /\ delivered = "") =>
                        resp[s].contentType = "image/png"

\* The render service reports image/webp for the first image, the content
\* response says image/jpeg, and the stream is typed image/webp.
C19_Witness ==
    \E s \in Slots :
        /\ Streamed(s)
        /\ calls[s][1].out.images[1].content_type = "image/webp"
        /\ calls[s][2].out.contentType = "image/jpeg"
        /\ resp[s].contentType = "image/webp"

--------------------------------------------------------------------------
(* Properties of the application                                           *)

\* The request of slot s, to a /wallpaper route, is answered.
WallpaperAnswered(s) ==
    /\ pc[s] = "done"
    /\ req[s].route = "app"
    /\ req[s].path.base = "/wallpaper"

Lacks(header) == ~header.present \/ header.value = ""

\* C20: on every /wallpaper route a request that lacks the X-Fal-Key or the
\* X-Google-Key header is answered 401 before the route handler runs, so no
\* external call is made for it.
C20_KeysRequired ==
    \A s \in Slots :
        (WallpaperAnswered(s)
            /\ (Lacks(req[s].falKey) \/ Lacks(req[s].googleKey))) =>
            /\ resp[s].code = 401
            /\ calls[s] = <<>>

--------------------------------------------------------------------------
\* The outcomes of the calls issued for the request of slot s, in order.
Outcomes(s) == [i \in DOMAIN calls[s] |-> calls[s][i].out]

\* The requests of slots s and t had the same input and their calls the
\* same outcomes.
SameInputs(s, t) ==
    /\ pc[s] = "done" /\ pc[t] = "done"
    /\ req[s] = req[t]
    /\ Outcomes(s) = Outcomes(t)

\* Whatever the other slot did meanwhile, an answered poll of a job
\* identifier issued one status query, for its own identifier.
OneQueryPerPoll(s) ==
    (Done(s, "status") /\ req[s].requestId # "") =>
        /\ NumCalls(s, "queue.status") = 1
        /\ calls[s][1] = [svc |-> "queue.status", arg |-> req[s].requestId,
                          out |-> calls[s][1].out]

\* A step is the step of one request: the state of every other request
\* is as it was, and nothing else is written.
OneSlotStep ==
    \E s \in Slots :
        /\ \A t \in Slots \ {s} :
              /\ pc'[t] = pc[t] /\ req'[t] = req[t]
              /\ calls'[t] = calls[t] /\ resp'[t] = resp[t]
        /\ job' = job

\* C21: the gateway keeps no state across requests: under any interleaving
\* of concurrent submit, poll and result requests, each response is
\* determined only by the request's own input and by the upstream responses
\* to its own calls (two requests with the same input and the same
\* outcomes have the same calls and the same response), polling the same
\* job identifier repeatedly issues one independent upstream query per
\* poll, and a step of one request changes nothing of another.
C21_NoSharedState ==
    /\ [](\A s \in Slots, t \in Slots :
            SameInputs(s, t) => (resp[s] = resp[t] /\ calls[s] = calls[t]))
    /\ [](\A s \in Slots : OneQueryPerPoll(s))
    /\ [][OneSlotStep]_vars

\* Two polls of the same job identifier are answered at the same time, each
\* from its own query: one reports the job queued, the other completed.
C21_Witness ==
    /\ PollReported(1, "IN_QUEUE") /\ PollReported(2, "COMPLETED")
    /\ req[1].requestId = req[2].requestId
    /\ resp[1].code = 200 /\ resp[1].body.status = "IN_QUEUE"
    /\ resp[2].code = 200 /\ resp[2].body.status = "COMPLETED"

--------------------------------------------------------------------------
\* The request of slot s is answered in this step.
Answers(s) == pc[s] # "done" /\ pc'[s] = "done"

\* Submit returns the identifier of the job it created.
SubmitGivesJobId(s) ==
    (req[s].route = "submit" /\ Answers(s)) =>
        /\ resp'[s].code = 202
        /\ resp'[s].body.request_id = job'.id

\* A poll whose status query is answered while the job is queued.
QueuedPoll(s) ==
    (pc[s] = "status_query" /\ Answers(s) /\ job.state = "IN_QUEUE") =>
        /\ resp'[s].code = 200
        /\ resp'[s].body.status = "IN_QUEUE"

\* A poll answered once the service reports the job completed.
CompletedPoll(s) ==
    (req[s].route = "status" /\ Answers(s) /\ job.state = "COMPLETED") =>
        /\ resp'[s].code = 200
        /\ resp'[s].body.status = "COMPLETED"
        /\ "image_url" \in DOMAIN resp'[s].body
        /\ resp'[s].body.image_url = job.image.url

\* A result fetch of the completed job goes on to the image and streams it.
CompletedResult(s) ==
    /\ (pc[s] = "result_query" /\ pc'[s] # pc[s] /\ job.state = "COMPLETED") =>
            pc'[s] = "result_cdn"
    /\ (pc[s] = "result_cdn" /\ Answers(s)) =>
            /\ resp'[s].kind = "stream" /\ resp'[s].code = 200
            /\ resp'[s].source = job.image.url
            /\ resp'[s].contentType = "image/png"

\* C22: end to end, for a job that the render service moves from queued
\* through running to completed: Submit returns the job identifier, a poll
\* made while the job is queued returns IN_QUEUE (Queued), every poll made
\* after the service reports completed returns COMPLETED with the image
\* URL, and a result fetch made after that streams the image bytes with
\* Content-Type image/png.
C22_EndToEnd ==
    [][\A s \in Slots :
          /\ SubmitGivesJobId(s)
          /\ QueuedPoll(s)
          /\ CompletedPoll(s)
          /\ CompletedResult(s)]_vars

\* The job is completed; one client has polled it and holds the image URL,
\* another has fetched the result and holds the PNG.
C22_Witness ==
    /\ job.state = "COMPLETED"
    /\ PollReported(1, "COMPLETED")
    /\ resp[1] = Json(200, [status |-> "COMPLETED", image_url |-> job.image.url])
    /\ Streamed(2)
    /\ resp[2].source = job.image.url
    /\ resp[2].contentType = "image/png"

--------------------------------------------------------------------------
\* The queue submission of slot s was accepted and Submit has answered.
Accepted(s) ==
    /\ Done(s, "submit")
    /\ Submitted(s)
    /\ calls[s][2].out.ok

\* C23: a successful queue submission makes Submit answer 202 with the job
\* identifier, a status URL and a result URL that are never absent: each
\* URL is the one reported by the render service when it reported one, and
\* otherwise is derived from the model name and the job identifier.
C23_UrlsNeverAbsent ==
    \A s \in Slots :
        Accepted(s) =>
            LET q == calls[s][2].out
                b == resp[s].body IN
            /\ resp[s].code = 202
            /\ {"request_id", "status_url", "response_url"} \subseteq DOMAIN b
            /\ b.request_id = q.request_id
            /\ b.status_url # "" /\ b.response_url # ""
            /\ b.status_url =
                  IF q.hasStatusUrl THEN UpstreamStatusUrl
                  ELSE "https://queue.fal.run/fal-ai/flux-2-pro/requests/abc123/status"
            /\ b.response_url =
                  IF q.hasResponseUrl THEN UpstreamResponseUrl
                  ELSE "https://queue.fal.run/fal-ai/flux-2-pro/requests/abc123"

\* The service reported a status URL and no result URL: the first is
\* relayed, the second derived.
C23_Witness ==
    \E s \in Slots :
        /\ Accepted(s)
        /\ calls[s][2].out.hasStatusUrl /\ ~calls[s][2].out.hasResponseUrl
        /\ resp[s].body.status_url = UpstreamStatusUrl
        /\ resp[s].body.response_url =
              "https://queue.fal.run/fal-ai/flux-2-pro/requests/abc123"

--------------------------------------------------------------------------
\* The outcomes of the calls of slot s are the first outcomes of those of
\* slot t.
OutcomesBegin(s, t) ==
    /\ Len(calls[s]) <= Len(calls[t])
    /\ \A i \in DOMAIN calls[s] : calls[s][i].out = calls[t][i].out

\* C24 as stated: a failure of a logging call never changes the control
\* flow of a request: for every handler of the wallpaper workflow the
\* response and the sequence of external calls are the same whether a log
\* emission succeeds or throws.  Two answered requests with the same input,
\* whose calls had the same outcomes as far as both were issued, made the
\* same calls and got the same response, whatever their log emissions did.
C24_LogFailuresHarmless ==
    \A s \in Slots, t \in Slots :
        (/\ pc[s] = "done" /\ pc[t] = "done"
         /\ req[s] = req[t]
         /\ OutcomesBegin(s, t))
        => (calls[s] = calls[t] /\ resp[s] = resp[t])

--------------------------------------------------------------------------
\* C25: the result endpoint answers 202 with status IN_PROGRESS exactly
\* when the render service's result fetch fails with status 400; a failure
\* with any other status is answered as an error with that status when it
\* lies in 400-599 and with 500 otherwise.
C25_NotReadyExactlyOn400 ==
    \A s \in Slots :
        Done(s, "result") =>
            /\ (resp[s].code = 202) <=> ResultFetchFailedWith(s, 400)
            /\ ResultFetchFailedWith(s, 400) => resp[s] = NotReady
            /\ \A st \in ErrStatuses \ {400} :
                  ResultFetchFailedWith(s, st) =>
                      /\ resp[s].code = IF st >= 400 /\ st <= 599 THEN st ELSE 500
                      /\ DOMAIN resp[s].body = {"error"}

\* A result fetch failed with a status outside 400-599 and is answered 500
\* with an error body.
C25_Witness ==
    \E s \in Slots :
        /\ ResultFetchFailedWith(s, 600)
        /\ resp[s].code = 500
        /\ DOMAIN resp[s].body = {"error"}

--------------------------------------------------------------------------
(* Properties of the models handler                                       *)

\* The models request of slot s is answered, the model search found
\* models and the pricing request settled.
Priced(s) ==
    /\ Done(s, "models")
    /\ Len(calls[s]) = 2

PricingFailed(s) == calls[s][2].out.kind # "prices"

\* C26 as stated: fetchPricing is best-effort: on any failure of the
\* pricing request (non-success status, transport failure, or unreadable
\* body) it returns an empty map instead of failing, so the models endpoint
\* still returns the model list with pricing null.
C26_PricingBestEffort ==
    \A s \in Slots :
        (Priced(s) /\ PricingFailed(s)) =>
            /\ resp[s].code = 200
            /\ "models" \in DOMAIN resp[s].body
            /\ Len(resp[s].body.models) = Len(calls[s][1].out.models)
            /\ \A i \in DOMAIN resp[s].body.models :
                  /\ resp[s].body.models[i].id = calls[s][1].out.models[i].endpoint_id
                  /\ resp[s].body.models[i].pricing = Null

--------------------------------------------------------------------------
\* C27: in a poll the result fetch is issued if and only if the status
\* query succeeded and reported COMPLETED: a poll of a queued or running
\* job, or a poll whose status query failed, makes no result fetch.
C27_ResultFetchIffCompleted ==
    \A s \in Slots :
        (req[s].route = "status" /\ pc[s] # "status_query") =>
            /\ NumCalls(s, "queue.result") <= 1
            /\ (NumCalls(s, "queue.result") = 1) <=>
                  (/\ Polled(s)
                   /\ calls[s][1].out.ok
                   /\ calls[s][1].out.status = "COMPLETED")
            /\ NumCalls(s, "queue.result") = 1 =>
                  calls[s][2] = [svc |-> "queue.result", arg |-> req[s].requestId,
                                 out |-> calls[s][2].out]

\* A poll of a running job is answered 200 without a result fetch.
C27_Witness ==
    /\ PollReported(1, "IN_PROGRESS")
    /\ NumCalls(1, "queue.result") = 0
    /\ resp[1].code = 200


--------------------------------------------------------------------------
\* C28 as stated: on every route the per-request logger variable is set by
\* an earlier middleware before any middleware or handler reads it, so no
\* request fails because the logger is undefined: no request is answered by
\* app.onError with the TypeError of a call on undefined, and a request
\* handed to its route handler carries the logger.
C28_LoggerIsSet ==
    \A s \in Slots :
        /\ (pc[s] = "done" /\ req[s].route = "app") =>
              resp[s] # OnError(TypeErrorMessage)
        /\ pc[s] = "handler" => "logger" \in DOMAIN req[s].var


--------------------------------------------------------------------------
(* Properties of the logged header record                                 *)

\* The request of slot s has been logged.
HeadersDone(s) == Done(s, "requestLogger")

LoggedHeaders(s) == calls[s][1].arg.headers

IsCredential(name) == ToLowerCase(name) \in {"x-fal-key", "x-google-key"}

\* The header lines of two requests are the same but for the values of the
\* two credential headers.
SameButCredentials(a, b) ==
    /\ Len(a) = Len(b)
    /\ \A i \in DOMAIN a :
          /\ a[i].name = b[i].name
          /\ IsCredential(a[i].name) \/ a[i].value = b[i].value

\* C29 as stated: the header record logged for an incoming request does
\* not depend on the credentials: the values of X-Fal-Key and X-Google-Key,
\* in any letter case of the header name, are replaced by "[REDACTED]" and
\* every other header is logged unchanged, so two requests differing only
\* in these two values log identical header records.
C29_HeadersRedacted ==
    /\ \A s \in Slots :
          HeadersDone(s) =>
            \A i \in DOMAIN req[s].headers :
                LET k == ToLowerCase(req[s].headers[i].name) IN
                /\ k \in DOMAIN LoggedHeaders(s)
                /\ LoggedHeaders(s)[k] =
                      IF IsCredential(k) THEN "[REDACTED]"
                      ELSE Joined(req[s].headers, k)
    /\ \A s \in Slots :
          HeadersDone(s) =>
            \A other \in SentHeaders :
                SameButCredentials(req[s].headers, other) =>
                    LoggedHeaders(s) = redactHeaders(HeaderEntries(other))

\* What holds of the record: the values of the two credential headers are
\* replaced in any letter case of the name, every other header but one
\* named __proto__ is logged unchanged, and two requests differing only in
\* the credentials log identical records.
CredentialsRedacted ==
    /\ \A s \in Slots :
          HeadersDone(s) =>
            \A i \in DOMAIN req[s].headers :
                LET k == ToLowerCase(req[s].headers[i].name) IN
                /\ k # "__proto__" => k \in DOMAIN LoggedHeaders(s)
                /\ IsCredential(k) => LoggedHeaders(s)[k] = "[REDACTED]"
                /\ (~IsCredential(k) /\ k # "__proto__") =>
                      LoggedHeaders(s)[k] = Joined(req[s].headers, k)
    /\ \A s \in Slots :
          HeadersDone(s) =>
            \A other \in SentHeaders :
                SameButCredentials(req[s].headers, other) =>
                    LoggedHeaders(s) = redactHeaders(HeaderEntries(other))

\* A request with a key and another header is logged: the key is redacted,
\* the other header is as sent, and the record is that of the same request
\* with another key.
CredentialsRedactedSeen ==
    /\ HeadersDone(1)
    /\ req[1].headers = <<HeaderLine("X-Fal-Key", "k1"), HeaderLine("Accept", "k2")>>
    /\ LoggedHeaders(1) = [k \in {"x-fal-key", "accept"} |->
                             IF k = "accept" THEN "k2" ELSE "[REDACTED]"]
    /\ LoggedHeaders(1) =
          redactHeaders(HeaderEntries(<<HeaderLine("X-Fal-Key", "k2"),
                                        HeaderLine("Accept", "k2")>>))


--------------------------------------------------------------------------
\* The supported ratios that are wider than tall, and taller than wide.
LandscapeRatios == {"21:9", "16:9", "4:3", "3:2"}
PortraitRatios == {"2:3", "3:4", "9:16", "9:21"}

\* C30: the ratio chosen by closestAspectRatio never contradicts the
\* input's orientation: for width > height it never returns a ratio with
\* w < h, for height > width it never returns a ratio with w > h, and for
\* width = height it returns exactly 1:1.
C30_OrientationKept ==
    \A s \in Slots :
        Returned(s) =>
            /\ req[s].width > req[s].height => resp[s].aspect_ratio \notin PortraitRatios
            /\ req[s].height > req[s].width => resp[s].aspect_ratio \notin LandscapeRatios
            /\ req[s].width = req[s].height => resp[s].aspect_ratio = "1:1"

\* A portrait input for which a portrait ratio is returned.
C30_Witness ==
    \E s \in Slots :
        /\ Returned(s)
        /\ req[s].width = 576 /\ req[s].height = 816
        /\ resp[s].aspect_ratio \in PortraitRatios

====
